---- MODULE Spec2Model ----
(***************************************************************************)
(* stick: piezo-triggered tones + MIDI.                                    *)
(*                                                                         *)
(* Two programs of the firmware are modelled:                              *)
(*   - firmware/main.py     the sensor poll loop (debounced edge           *)
(*                          detection, handle_hit, idle breathing);        *)
(*                          specification Spec.                            *)
(*   - firmware/i2s_midi.py the MIDI-driven sample player (Player.run      *)
(*                          decoding the bytes that lib/midi.py MidiOut    *)
(*                          writes); specification SpecMidi.               *)
(* Times are milliseconds.  Frequencies are in 1/100 Hz so that the        *)
(* NOTES table stays integral (440.00 Hz is 44000).                        *)
(***************************************************************************)
EXTENDS Integers, Sequences, FiniteSets, TLC

VARIABLES
    \* ---- firmware/main.py ----
    pc,              \* position of the main program
    clock,           \* true milliseconds on the free-running tick timer
    raw,             \* electrical level of each sensor's D0 line (active low)
    state,           \* state[key] = <<prev_value, last_hit_ms>>
    now,             \* ticks_ms() taken at the top of the cycle
    idx,             \* position of the for-loop in SENSORS
    current,         \* the value read for SENSORS[idx]
    hit_this_cycle,
    breath_counter,
    led,             \* the last colour written by set_rgb
    todo,            \* the steps handle_hit has still to run
    hit_log,         \* what the running / last handle_hit call has done
    cycles,          \* poll cycles started
    quiets,          \* quiet runs taken
    \* ---- history of main.py, read by the properties only ----
    initHigh,        \* key -> the first read was "hit"
    everLow,         \* key -> polled idle at least once
    everHit,         \* key -> handle_hit has been called for it
    polled,          \* key -> the level of its latest read
    nowAt,           \* the true time at which "now" was taken
    hitAt,           \* key -> true time of its last accepted hit, or None
    lastEdge,        \* key -> the last rising edge polled: <<true time, fired>>
    pulse,           \* key -> "none" | "up" | "missed"
    lastPoll,        \* the most recent poll decision
    \* ---- lib/midi.py MidiOut and firmware/i2s_midi.py Player ----
    channel,         \* MidiOut.channel
    arg,             \* the note / program and the velocity the caller passes
    calls,           \* the MidiOut calls made: <<op, note or program, velocity>>
    writes,          \* the bytes each of them wrote
    wire,            \* bytes written by MidiOut.uart.write, not yet received
    rx,              \* bytes waiting in the Player's UART receive buffer
    mpc,             \* position of Player.run / Player.play
    status,          \* running status
    data1,
    decoded,         \* complete messages decoded: <<msg, data1, data2>>
    gap,             \* a read for a data byte has timed out
    playing,         \* the play request being streamed, or NoPlay
    played,          \* the paths handed to Player.play
    audio,           \* what Player.play wrote to the I2S sink: <<kind, bytes>>
    opened,          \* the paths of the files Player.play holds open
    streams,         \* history: one record per stream Player.play has begun
    timedOut,        \* history: the positions at which a read yielded no data
    \* ---- parse_wav_header of firmware/i2s_midi.py on its own ----
    wpc,             \* "off" | "built" | "parsed"
    base,            \* the container as first built: <<signature, chunks>>
    wav,             \* the container handed to parse_wav_header
    info,            \* what parse_wav_header returned for wav, and f.tell()
    baseInfo,        \* the same for base
    first,           \* f.read(1) after parse_wav_header(wav) returned
    \* ---- Player.play of firmware/i2s_midi.py on its own ----
    ppc,             \* "off" | "call" | "loop" | "returned" | "raised"
    pfile,           \* the bytes of the file at the path, << >> if none
    plocal,          \* play's locals: the file position, remaining, is_8bit
    sink,            \* what audio.write was given, in order
    fopen,           \* the number of files play has open
    pending,         \* uart.any(): MIDI bytes wait in the UART
    \* ---- one call of a function of the firmware ----
    fcall,           \* "off" or the name of the function
    fargs,           \* its arguments
    fdone,           \* the call is over
    fret,            \* what it returned, or how it ended
    \* ---- the sensor reads of main.py over lib/tca9548a.py ----
    bpc,             \* "off" | "loop" | "crashed"
    bnext,           \* the index in SENSORS of the next sensor read
    mux_channel,     \* TCA9548A._channel of each hub
    bus,             \* the I2C writes issued: <<address, byte, acknowledged>>
    pins,            \* the level of the D0 line of each sensor
    seen             \* what read_sensor returned, in order

mainVars == <<pc, clock, raw, state, now, idx, current, hit_this_cycle,
              breath_counter, led, todo, hit_log, cycles, quiets>>
histVars == <<initHigh, everLow, everHit, polled, nowAt, hitAt, lastEdge,
              pulse, lastPoll>>
midiVars == <<channel, arg, calls, writes, wire, rx, mpc, status, data1,
              decoded, gap, playing, played, audio, opened, streams, timedOut>>
wavVars == <<wpc, base, wav, info, baseInfo, first>>
playVars == <<ppc, pfile, plocal, sink, fopen, pending>>
callVars == <<fcall, fargs, fdone, fret>>
busVars == <<bpc, bnext, mux_channel, bus, pins, seen>>
restVars == <<playVars, callVars, busVars>>
vars == <<mainVars, histVars, midiVars, wavVars, restVars>>

-----------------------------------------------------------------------------
(* Bounds of the model *)

MaxCycles == 5        \* poll cycles explored
MaxQuietRuns == 1     \* long runs of idle cycles explored
MaxCalls == 2         \* MidiOut calls per run of the MIDI-driven mode
MaxInserted == 1      \* unknown chunks inserted into a container
MaxBreathCycles == 203 \* poll cycles followed for the idle breathing
MaxBusReads == 5      \* sensor reads followed on the I2C bus
MaxLines == 3         \* lines of a configuration file

-----------------------------------------------------------------------------
(* Small helpers *)

None == 0 - 1

Min(a, b) == IF a < b THEN a ELSE b
Max(a, b) == IF a > b THEN a ELSE b

\* x & y of Python for any integer x and y >= 0 (floor division and a
\* non-negative remainder give the two's complement bits of a negative x)
RECURSIVE BitAnd(_, _)
BitAnd(x, y) ==
    IF y = 0 \/ x = 0 THEN 0
    ELSE (x % 2) * (y % 2) + 2 * BitAnd(x \div 2, y \div 2)

\* x | y for x, y >= 0
RECURSIVE BitOr(_, _)
BitOr(x, y) ==
    IF x = 0 THEN y
    ELSE IF y = 0 THEN x
    ELSE Max(x % 2, y % 2) + 2 * BitOr(x \div 2, y \div 2)

-----------------------------------------------------------------------------
(* firmware/config.py *)

TONE_DURATION_MS == 200
DEBOUNCE_MS == 50
POLL_MS == 5

\* (hub_addr, channel, pin_idx, sound): one descriptor bound to a note of
\* lib/notes.py and one bound to a sound name that is no note
SENSORS == << <<112, 0, 0, "A4">>, <<112, 0, 1, "kick">> >>

-----------------------------------------------------------------------------
(* firmware/lib/notes.py *)

NOTES ==
    ( "C4"  :> <<26163, 60>> ) @@ ( "Cs4" :> <<27718, 61>> ) @@
    ( "D4"  :> <<29366, 62>> ) @@ ( "Ds4" :> <<31113, 63>> ) @@
    ( "E4"  :> <<32963, 64>> ) @@ ( "F4"  :> <<34923, 65>> ) @@
    ( "Fs4" :> <<36999, 66>> ) @@ ( "G4"  :> <<39200, 67>> ) @@
    ( "Gs4" :> <<41530, 68>> ) @@ ( "A4"  :> <<44000, 69>> ) @@
    ( "As4" :> <<46616, 70>> ) @@ ( "B4"  :> <<49388, 71>> ) @@
    ( "C5"  :> <<52325, 72>> ) @@ ( "Cs5" :> <<55437, 73>> ) @@
    ( "D5"  :> <<58733, 74>> ) @@ ( "Ds5" :> <<62225, 75>> ) @@
    ( "E5"  :> <<65926, 76>> ) @@ ( "F5"  :> <<69846, 77>> ) @@
    ( "Fs5" :> <<73999, 78>> ) @@ ( "G5"  :> <<78399, 79>> ) @@
    ( "Gs5" :> <<83061, 80>> ) @@ ( "A5"  :> <<88000, 81>> ) @@
    ( "As5" :> <<93233, 82>> ) @@ ( "B5"  :> <<98777, 83>> ) @@
    ( "C6"  :> <<104650, 84>> ) @@ ( "Cs6" :> <<110873, 85>> ) @@
    ( "D6"  :> <<117466, 86>> ) @@ ( "Ds6" :> <<124451, 87>> ) @@
    ( "E6"  :> <<131851, 88>> )

freq(name) == IF name \in DOMAIN NOTES THEN NOTES[name][1] ELSE None

midi_note(name) == IF name \in DOMAIN NOTES THEN NOTES[name][2] ELSE None

-----------------------------------------------------------------------------
(* firmware/lib/midi.py *)

NOTE_ON == 144
NOTE_OFF == 128
PROG_CHG == 192

\* MidiOut.__init__: self.channel = channel & 0x0F
MidiOut(ch) == BitAnd(ch, 15)

\* bytes([...]) raises ValueError unless every item is in range(256)
ValueError == << -1 >>
bytes(list) ==
    IF \A i \in 1..Len(list) : list[i] \in 0..255 THEN list ELSE ValueError

note_on_unmasked(ch, note, velocity) ==
    bytes(<<BitOr(NOTE_ON, ch), note, velocity>>)
note_on(ch, note, velocity) ==
    bytes(<<BitOr(NOTE_ON, ch), BitAnd(note, 127), BitAnd(velocity, 127)>>)

note_off_as_note_on(ch, note, velocity) ==
    bytes(<<BitOr(NOTE_ON, ch), BitAnd(note, 127), BitAnd(velocity, 127)>>)
note_off(ch, note, velocity) ==
    bytes(<<BitOr(NOTE_OFF, ch), BitAnd(note, 127), BitAnd(velocity, 127)>>)

program_change_unmasked(ch, program) ==
    bytes(<<BitOr(PROG_CHG, ch), program>>)
program_change(ch, program) ==
    bytes(<<BitOr(PROG_CHG, ch), BitAnd(program, 127)>>)

\* uart.write(data): the bytes go out in order; a call that raised wrote nothing
uart_write(out, data) == IF data = ValueError THEN out ELSE out \o data

-----------------------------------------------------------------------------
(* time.ticks_ms / time.ticks_diff of the firmware's runtime: the tick      *)
(* counter wraps at TICKS_PERIOD and ticks_diff is the signed difference    *)
(* in [-TICKS_PERIOD/2, TICKS_PERIOD/2)                                     *)

TICKS_PERIOD == 2^30
TICKS_HALF == TICKS_PERIOD \div 2

ticks_ms(t) == t % TICKS_PERIOD

ticks_diff_plain(a, b) == a - b
ticks_diff(a, b) == ((a - b + TICKS_HALF) % TICKS_PERIOD) - TICKS_HALF

-----------------------------------------------------------------------------
(* firmware/main.py *)

ANIM_STEP_MS == 10

BREATH_TABLE == <<1, 2, 3, 5, 7, 9, 11, 13, 14, 15, 15, 14, 13, 11, 9, 7, 5, 3, 2, 1>>

\* "if not hit_this_cycle: breath_counter = (breath_counter + 1) % (len(BREATH_TABLE) * 10)"
breath_step_every_cycle(counter, hit) == (counter + 1) % (Len(BREATH_TABLE) * 10)
breath_step(counter, hit) ==
    IF ~hit THEN (counter + 1) % (Len(BREATH_TABLE) * 10) ELSE counter

\* x >> 8
shr8_dropped(x) == x
shr8(x) == x \div 256

\* hsv_to_rgb below "if s == 0": the six regions of 43 hues each
hsv_regions(h, s, v) ==
    LET region    == h \div 43
        remainder == (h - region * 43) * 6
        p == shr8(v * (255 - s))
        q == shr8(v * (255 - shr8(s * remainder)))
        t == shr8(v * (255 - shr8(s * (255 - remainder))))
    IN  IF region = 0 THEN <<v, t, p>>
        ELSE IF region = 1 THEN <<q, v, p>>
        ELSE IF region = 2 THEN <<p, v, t>>
        ELSE IF region = 3 THEN <<p, q, v>>
        ELSE IF region = 4 THEN <<t, p, v>>
        ELSE <<v, p, q>>

\* hsv_to_rgb(h, s, v): HSV (0-255 each) to <<r, g, b>>
hsv_to_rgb_no_grey(h, s, v) == hsv_regions(h, s, v)
hsv_to_rgb(h, s, v) == IF s = 0 THEN <<v, v, v>> ELSE hsv_regions(h, s, v)

\* the hue of each chromatic note, C = 0 .. B = 11
NOTE_HUES == <<0, 21, 43, 64, 85, 107, 128, 149, 170, 192, 213, 234>>

N == Len(SENSORS)
Key(sensor) == <<sensor[1], sensor[2], sensor[3]>>
Keys == {Key(SENSORS[i]) : i \in 1..N}

\* TCA9548A.read_pins(ch): the levels of the two lines of the channel
read_pins(hub_addr, ch) == <<raw[<<hub_addr, ch, 0>>], raw[<<hub_addr, ch, 1>>]>>

\* read_sensor(sensor): 1 = hit, 0 = idle (D0 is active low)
read_sensor_latching(sensor) ==
    LET ab == read_pins(sensor[1], sensor[2])
        r  == IF sensor[3] = 0 THEN ab[1] ELSE ab[2]
    IN  IF r = 0 \/ pulse[Key(sensor)] = "missed" THEN 1 ELSE 0
read_sensor(sensor) ==
    LET ab == read_pins(sensor[1], sensor[2])
        r  == IF sensor[3] = 0 THEN ab[1] ELSE ab[2]
    IN  IF r = 0 THEN 1 ELSE 0

\* state[(hub_addr, ch, pin_idx)] = (val, 0) with val the first reading
SeedLow(val) == <<0, 0>>
SeedState(val) == <<val, 0>>

\* "if current and not prev"
IsLevelHigh(cur, prev) == cur # 0
IsRisingEdge(cur, prev) == cur # 0 /\ prev = 0

\* "if time.ticks_diff(now, last_ms) > DEBOUNCE_MS"
DebounceInclusive(t, last_ms) == ticks_diff(t, last_ms) >= DEBOUNCE_MS
DebouncePlain(t, last_ms) == ticks_diff_plain(t, last_ms) > DEBOUNCE_MS
DebounceOff(t, last_ms) == TRUE
DebouncePassed(t, last_ms) == ticks_diff(t, last_ms) > DEBOUNCE_MS

\* the tuple stored after handle_hit returned / when no hit was dispatched
StoreAccepted(cur, t, last_ms) == <<cur, t>>
StoreRejected(cur, t, last_ms) == <<cur, last_ms>>

\* play_tone_with_rgb: the white flash of min(20, duration_ms), then
\* max(1, remaining // ANIM_STEP_MS) animation steps when remaining > 0
\* the step count of line 101, not recomputed from what remains after the flash
tone_steps_of_whole_duration(duration_ms) ==
    IF duration_ms - 20 > 0
    THEN Max(1, duration_ms \div ANIM_STEP_MS)
    ELSE 0
tone_steps(duration_ms) ==
    IF duration_ms - 20 > 0
    THEN Max(1, (duration_ms - 20) \div ANIM_STEP_MS)
    ELSE 0
tone_on_ms(duration_ms) ==
    Min(20, duration_ms) + tone_steps(duration_ms) * ANIM_STEP_MS

BUZZER_PIN == 18
AUDIO_PIN == 19
\* duty_u16(32768): half of full scale
DUTY_ON == 32768

\* step i of steps: the colour of the LED, fading with a hue shimmer
anim_color(i, steps, midi_num) ==
    LET t       == (i * 256) \div steps
        bright  == 255 - shr8(t * 200)
        shimmer == shr8(t * 30)
        hue     == (NOTE_HUES[(midi_num % 12) + 1] + shimmer) % 256
    IN  hsv_to_rgb(hue, 255, bright)

\* play_tone_with_rgb(frequency_hz, duration_ms, midi_num): what it does to
\* the two PWM outputs and the LED and how long it sleeps, in order, as
\* <<"freq", pin, hz, 0>>, <<"duty", pin, duty, 0>>, <<"rgb", r, g, b>> and
\* <<"sleep", ms, 0, 0>>.  int(frequency_hz) drops the hundredths.
play_tone_with_rgb(frequency_hz, duration_ms, midi_num) ==
    LET steps == tone_steps(duration_ms)
        hz    == frequency_hz \div 100
    IN  << <<"freq", BUZZER_PIN, hz, 0>>, <<"freq", AUDIO_PIN, hz, 0>>,
           <<"duty", BUZZER_PIN, DUTY_ON, 0>>, <<"duty", AUDIO_PIN, DUTY_ON, 0>>,
           <<"rgb", 255, 255, 255>>,
           <<"sleep", Min(20, duration_ms), 0, 0>> >>
        \o [k \in 1..(2 * steps) |->
              IF k % 2 = 1
              THEN <<"rgb">> \o anim_color((k - 1) \div 2, steps, midi_num)
              ELSE <<"sleep", ANIM_STEP_MS, 0, 0>>]
        \o << <<"duty", BUZZER_PIN, 0, 0>>, <<"duty", AUDIO_PIN, 0, 0>>,
              <<"rgb", 0, 0, 0>> >>

\* handle_hit(sensor): the calls it makes, in order, as <<op, a, b, c>>
handle_hit_off_first(sensor) ==
    LET f  == freq(sensor[4])
        mn == midi_note(sensor[4])
    IN  (IF mn # None THEN << <<"note_on", mn, 127, 0>> >> ELSE << >>)
        \o (IF mn # None THEN << <<"note_off", mn, 0, 0>> >> ELSE << >>)
        \o (IF f # None /\ mn # None
              THEN << <<"tone", f, TONE_DURATION_MS, mn>> >>
            ELSE IF f # None
              THEN << <<"tone", f, TONE_DURATION_MS, 60>> >>
            ELSE << >>)
handle_hit(sensor) ==
    LET f  == freq(sensor[4])
        mn == midi_note(sensor[4])
    IN  (IF mn # None THEN << <<"note_on", mn, 127, 0>> >> ELSE << >>)
        \o (IF f # None /\ mn # None
              THEN << <<"tone", f, TONE_DURATION_MS, mn>> >>
            ELSE IF f # None
              THEN << <<"tone", f, TONE_DURATION_MS, 60>> >>
            ELSE << >>)
        \o (IF mn # None THEN << <<"note_off", mn, 0, 0>> >> ELSE << >>)

LogUart(data) == [op |-> "uart", data |-> data, f |-> None, ms |-> None, on |-> None]
LogTone(f, ms, on) == [op |-> "tone", data |-> << >>, f |-> f, ms |-> ms, on |-> on]

\* the loop start ticks explored: shortly after the counter was at zero, and
\* shortly before the middle of its period
StartClocks == {45, TICKS_HALF - 30}

\* the length, in poll cycles, of a long run of idle cycles
QuietCycles == (TICKS_HALF \div POLL_MS) - 60

NoPoll ==
    [idx |-> 0, prev |-> 0, cur |-> 0, t |-> 0, last_ms |-> 0, last_after |-> 0,
     fired |-> FALSE, was |-> 0, missed |-> FALSE, hitAt |-> None,
     at |-> 0, edgeAt |-> None, edgeFired |-> FALSE]

Rendering == pc = "hit" /\ todo # << >> /\ Head(todo)[1] = "tone"

-----------------------------------------------------------------------------
(* The MIDI-driven mode before anything has happened in it *)

NoPlay == [path |-> "", remaining |-> 0]

MidiIdle(ch) ==
    /\ channel = MidiOut(ch)
    /\ calls = << >>
    /\ writes = << >>
    /\ wire = << >>
    /\ rx = << >>
    /\ mpc = "run"
    /\ status = 0
    /\ data1 = 0
    /\ decoded = << >>
    /\ gap = FALSE
    /\ playing = NoPlay
    /\ played = << >>
    /\ audio = << >>
    /\ opened = << >>
    /\ streams = << >>
    /\ timedOut = {}

\* parse_wav_header has not been called on its own
WavOff ==
    /\ wpc = "off"
    /\ base = << >>
    /\ wav = << >>
    /\ info = << >>
    /\ baseInfo = << >>
    /\ first = << >>

\* Player.play has not been called on its own
PlayOff ==
    /\ ppc = "off"
    /\ pfile = << >>
    /\ plocal = << >>
    /\ sink = << >>
    /\ fopen = 0
    /\ pending = FALSE

\* no function is called on its own
CallOff ==
    /\ fcall = "off"
    /\ fargs = << >>
    /\ fdone = FALSE
    /\ fret = << >>

\* the sensor reads are not followed on the bus
BusOff ==
    /\ bpc = "off"
    /\ bnext = 1
    /\ mux_channel = << >>
    /\ bus = << >>
    /\ pins = << >>
    /\ seen = << >>

-----------------------------------------------------------------------------
(* The sensor poll loop of firmware/main.py *)

\* main.py up to "state = {}": midi = MidiOut(uart_id=0, tx_pin=0, channel=0)
Init ==
    /\ pc = "init"
    /\ clock \in StartClocks
    /\ raw \in [Keys -> {0, 1}]
    /\ state = << >>
    /\ now = 0
    /\ idx = 1
    /\ current = 0
    /\ hit_this_cycle = FALSE
    /\ breath_counter = 0
    /\ led = <<0, 0, 0>>
    /\ todo = << >>
    /\ hit_log = << >>
    /\ cycles = 0
    /\ quiets = 0
    /\ initHigh = [k \in Keys |-> FALSE]
    /\ everLow = [k \in Keys |-> FALSE]
    /\ everHit = [k \in Keys |-> FALSE]
    /\ polled = [k \in Keys |-> 0]
    /\ nowAt = 0
    /\ hitAt = [k \in Keys |-> None]
    /\ lastEdge = [k \in Keys |-> <<None, FALSE>>]
    /\ pulse = [k \in Keys |-> "none"]
    /\ lastPoll = NoPoll
    /\ arg = <<0, 0>>
    /\ MidiIdle(0)
    /\ WavOff
    /\ PlayOff /\ CallOff /\ BusOff

SensorOf(k) == SENSORS[CHOOSE i \in 1..N : Key(SENSORS[i]) = k]

\* "for sensor in SENSORS: state[key] = (read_sensor(sensor), 0)"
InitSensors ==
    /\ pc = "init"
    /\ state' = [k \in Keys |-> SeedState(read_sensor(SensorOf(k)))]
    /\ initHigh' = [k \in Keys |-> read_sensor(SensorOf(k)) = 1]
    /\ everLow' = [k \in Keys |-> read_sensor(SensorOf(k)) = 0]
    /\ polled' = [k \in Keys |-> read_sensor(SensorOf(k))]
    /\ pc' = "top"
    /\ UNCHANGED <<clock, raw, now, idx, current, hit_this_cycle, breath_counter,
                   led, todo, hit_log, cycles, quiets>>
    /\ UNCHANGED <<everHit, nowAt, hitAt, lastEdge, pulse, lastPoll>>
    /\ UNCHANGED <<midiVars, wavVars, restVars>>

\* "while True: now = time.ticks_ms(); hit_this_cycle = False"
LoopTop ==
    /\ pc = "top"
    /\ cycles < MaxCycles
    /\ now' = ticks_ms(clock)
    /\ hit_this_cycle' = FALSE
    /\ idx' = 1
    /\ cycles' = cycles + 1
    /\ pc' = "poll"
    /\ nowAt' = clock
    /\ UNCHANGED <<clock, raw, state, current, breath_counter, led, todo,
                   hit_log, quiets>>
    /\ UNCHANGED <<initHigh, everLow, everHit, polled, hitAt, lastEdge, pulse,
                   lastPoll>>
    /\ UNCHANGED <<midiVars, wavVars, restVars>>

\* the for-loop moves on: the next sensor, or the code after the loop
NextSensor ==
    IF idx < N THEN idx' = idx + 1 /\ pc' = "poll"
               ELSE idx' = idx /\ pc' = "idle"

\* one pass of the for-loop body up to the call of handle_hit, or, when no
\* hit is dispatched, to its end
Poll ==
    /\ pc = "poll"
    /\ LET sensor  == SENSORS[idx]
           key     == Key(sensor)
           cur     == read_sensor(sensor)
           prev    == state[key][1]
           last_ms == state[key][2]
           edge    == IsRisingEdge(cur, prev)
           fire    == edge /\ DebouncePassed(now, last_ms)
       IN  /\ current' = cur
           /\ IF fire
                THEN /\ todo' = handle_hit(sensor)
                     /\ hit_log' = << >>
                     /\ pc' = "hit"
                     /\ UNCHANGED <<state, idx>>
                ELSE /\ state' = [state EXCEPT ![key] = StoreRejected(cur, now, last_ms)]
                     /\ NextSensor
                     /\ UNCHANGED <<todo, hit_log>>
           /\ lastPoll' =
                [idx |-> idx, prev |-> prev, cur |-> cur, t |-> now,
                 last_ms |-> last_ms,
                 last_after |-> IF fire THEN None ELSE state'[key][2],
                 fired |-> fire, was |-> polled[key],
                 missed |-> pulse[key] = "missed", hitAt |-> hitAt[key],
                 at |-> nowAt, edgeAt |-> lastEdge[key][1],
                 edgeFired |-> lastEdge[key][2]]
           /\ everLow' = [everLow EXCEPT ![key] = @ \/ cur = 0]
           /\ everHit' = [everHit EXCEPT ![key] = @ \/ fire]
           /\ polled' = [polled EXCEPT ![key] = cur]
           /\ hitAt' = [hitAt EXCEPT ![key] = IF fire THEN nowAt ELSE @]
           /\ lastEdge' = [lastEdge EXCEPT ![key] = IF edge THEN <<nowAt, fire>> ELSE @]
           /\ pulse' = [pulse EXCEPT ![key] = "none"]
    /\ UNCHANGED <<clock, raw, now, hit_this_cycle, breath_counter, led, cycles,
                   quiets, initHigh, nowAt>>
    /\ UNCHANGED <<midiVars, wavVars, restVars>>

\* handle_hit: midi.note_on(mn, 127)
HitNoteOn ==
    /\ pc = "hit" /\ todo # << >> /\ Head(todo)[1] = "note_on"
    /\ hit_log' = Append(hit_log,
                         LogUart(note_on(channel, Head(todo)[2], Head(todo)[3])))
    /\ todo' = Tail(todo)
    /\ UNCHANGED <<pc, clock, raw, state, now, idx, current, hit_this_cycle,
                   breath_counter, led, cycles, quiets>>
    /\ UNCHANGED histVars
    /\ UNCHANGED <<midiVars, wavVars, restVars>>

\* handle_hit: play_tone_with_rgb(f, TONE_DURATION_MS, mn), which returns
\* when the tone has been on for the flash and all the animation steps
HitTone ==
    /\ Rendering
    /\ hit_log' = Append(hit_log,
                         LogTone(Head(todo)[2], Head(todo)[3],
                                 tone_on_ms(Head(todo)[3])))
    /\ clock' = clock + tone_on_ms(Head(todo)[3])
    /\ led' = <<0, 0, 0>>
    /\ todo' = Tail(todo)
    /\ pulse' = [k \in Keys |-> IF pulse[k] = "up" THEN "none" ELSE pulse[k]]
    /\ UNCHANGED <<pc, raw, state, now, idx, current, hit_this_cycle,
                   breath_counter, cycles, quiets>>
    /\ UNCHANGED <<initHigh, everLow, everHit, polled, nowAt, hitAt, lastEdge,
                   lastPoll>>
    /\ UNCHANGED <<midiVars, wavVars, restVars>>

\* handle_hit: midi.note_off(mn)
HitNoteOff ==
    /\ pc = "hit" /\ todo # << >> /\ Head(todo)[1] = "note_off"
    /\ hit_log' = Append(hit_log,
                         LogUart(note_off(channel, Head(todo)[2], Head(todo)[3])))
    /\ todo' = Tail(todo)
    /\ UNCHANGED <<pc, clock, raw, state, now, idx, current, hit_this_cycle,
                   breath_counter, led, cycles, quiets>>
    /\ UNCHANGED histVars
    /\ UNCHANGED <<midiVars, wavVars, restVars>>

\* handle_hit: set_rgb(0, 0, 0) and return; then
\* "state[key] = (current, now); hit_this_cycle = True"
HitReturn ==
    /\ pc = "hit" /\ todo = << >>
    /\ led' = <<0, 0, 0>>
    /\ LET key == Key(SENSORS[idx])
       IN  state' = [state EXCEPT ![key] = StoreAccepted(current, now, state[key][2])]
    /\ hit_this_cycle' = TRUE
    /\ NextSensor
    /\ UNCHANGED <<clock, raw, now, current, breath_counter, todo, hit_log,
                   cycles, quiets>>
    /\ UNCHANGED histVars
    /\ UNCHANGED <<midiVars, wavVars, restVars>>

\* "if not hit_this_cycle:" the idle breathing step
Breathe ==
    /\ pc = "idle"
    /\ breath_counter' = breath_step(breath_counter, hit_this_cycle)
    /\ led' = IF ~hit_this_cycle
                THEN <<0, 0, BREATH_TABLE[(breath_counter' \div 10) + 1]>>
                ELSE led
    /\ pc' = "sleep"
    /\ UNCHANGED <<clock, raw, state, now, idx, current, hit_this_cycle, todo,
                   hit_log, cycles, quiets>>
    /\ UNCHANGED histVars
    /\ UNCHANGED <<midiVars, wavVars, restVars>>

\* "time.sleep_ms(POLL_MS)"
Sleep ==
    /\ pc = "sleep"
    /\ clock' = clock + POLL_MS
    /\ pc' = "top"
    /\ UNCHANGED <<raw, state, now, idx, current, hit_this_cycle, breath_counter,
                   led, todo, hit_log, cycles, quiets>>
    /\ UNCHANGED histVars
    /\ UNCHANGED <<midiVars, wavVars, restVars>>

\* The world: a sensor's D0 line changes level while time passes, that is
\* during the sleep or during a tone render.
Env ==
    /\ pc = "sleep" \/ Rendering
    /\ \E k \in Keys :
         /\ raw' = [raw EXCEPT ![k] = 1 - raw[k]]
         /\ pulse' = [pulse EXCEPT ![k] =
               IF Rendering /\ k # Key(SENSORS[idx])
                 THEN (IF raw[k] = 1 THEN "up"
                       ELSE IF pulse[k] = "up" THEN "missed" ELSE pulse[k])
                 ELSE "none"]
    /\ UNCHANGED <<pc, clock, state, now, idx, current, hit_this_cycle,
                   breath_counter, led, todo, hit_log, cycles, quiets>>
    /\ UNCHANGED <<initHigh, everLow, everHit, polled, nowAt, hitAt, lastEdge,
                   lastPoll>>
    /\ UNCHANGED <<midiVars, wavVars, restVars>>

\* QuietCycles poll cycles in a row during which no line changes and no
\* sensor shows a rising edge, up to the sleep of the last of them: every
\* sensor is stored with its level, the breathing advances once per cycle.
QuietRun ==
    /\ pc = "top"
    /\ quiets < MaxQuietRuns
    /\ \A i \in 1..N :
         ~IsRisingEdge(read_sensor(SENSORS[i]), state[Key(SENSORS[i])][1])
    /\ LET last  == clock + (QuietCycles - 1) * POLL_MS
           key   == Key(SENSORS[N])
           level == [k \in Keys |-> read_sensor(SensorOf(k))]
       IN  /\ state' = [k \in Keys |->
                          StoreRejected(level[k], ticks_ms(last), state[k][2])]
           /\ now' = ticks_ms(last)
           /\ clock' = last
           /\ current' = level[key]
           /\ everLow' = [k \in Keys |-> everLow[k] \/ level[k] = 0]
           /\ polled' = level
           /\ nowAt' = last
           /\ lastPoll' =
                [idx |-> N, prev |-> level[key], cur |-> level[key],
                 t |-> ticks_ms(last), last_ms |-> state[key][2],
                 last_after |-> state[key][2], fired |-> FALSE,
                 was |-> level[key], missed |-> FALSE,
                 hitAt |-> hitAt[key], at |-> last,
                 edgeAt |-> lastEdge[key][1], edgeFired |-> lastEdge[key][2]]
    /\ idx' = N
    /\ hit_this_cycle' = FALSE
    /\ breath_counter' = (breath_counter + QuietCycles) % (Len(BREATH_TABLE) * 10)
    /\ led' = <<0, 0, BREATH_TABLE[(breath_counter' \div 10) + 1]>>
    /\ pulse' = [k \in Keys |-> "none"]
    /\ quiets' = quiets + 1
    /\ pc' = "sleep"
    /\ UNCHANGED <<raw, todo, hit_log, cycles, initHigh, everHit, hitAt, lastEdge>>
    /\ UNCHANGED <<midiVars, wavVars, restVars>>

Next ==
    \/ InitSensors
    \/ LoopTop
    \/ Poll
    \/ HitNoteOn
    \/ HitTone
    \/ HitNoteOff
    \/ HitReturn
    \/ Breathe
    \/ Sleep
    \/ Env
    \/ QuietRun

Spec == Init /\ [][Next]_vars

-----------------------------------------------------------------------------
(* Properties of the poll loop (specification Spec) *)

PolledEdge == lastPoll.idx # 0 /\ lastPoll.prev = 0 /\ lastPoll.cur = 1

\* the poll saw the second of two rising edges of one sensor whose cycles
\* started less than DEBOUNCE_MS apart
EdgePair ==
    /\ PolledEdge
    /\ lastPoll.edgeAt # None
    /\ lastPoll.at - lastPoll.edgeAt < DEBOUNCE_MS

C2_NoHitWhileHighFromStart ==
    \A k \in Keys : (initHigh[k] /\ ~everLow[k]) => ~everHit[k]

C2_Witness ==
    /\ lastPoll.idx # 0
    /\ cycles >= 2
    /\ LET k == Key(SENSORS[lastPoll.idx])
       IN  initHigh[k] /\ ~everLow[k] /\ ~everHit[k]
    /\ lastPoll.cur = 1
    /\ lastPoll.t - lastPoll.last_ms > DEBOUNCE_MS

\* C3: a poll fires a hit iff the stored level is low, the level read is
\* high and ticks_diff(now, last_ms) is strictly greater than DEBOUNCE_MS; a
\* rising edge that is rejected leaves the stored timestamp as it was.
C3_HitIffEdgeAndDebounce ==
    lastPoll.idx # 0 =>
       /\ lastPoll.fired <=>
             /\ lastPoll.prev = 0
             /\ lastPoll.cur = 1
             /\ ticks_diff(lastPoll.t, lastPoll.last_ms) > DEBOUNCE_MS
       /\ (PolledEdge /\ ~lastPoll.fired) =>
             /\ lastPoll.last_after = lastPoll.last_ms
             /\ state[Key(SENSORS[lastPoll.idx])][2] = lastPoll.last_ms

C3_Witness ==
    /\ PolledEdge
    /\ ~lastPoll.fired
    /\ ticks_diff(lastPoll.t, lastPoll.last_ms) = DEBOUNCE_MS

\* C4: a hit fires only at a poll that reads high right after a read of the
\* same sensor that was low: never while the sensor is held high, never at
\* a poll that reads low.
C4_EdgeTriggeredRearm ==
    (lastPoll.idx # 0 /\ lastPoll.fired) => (lastPoll.was = 0 /\ lastPoll.cur = 1)

C4_Witness ==
    /\ lastPoll.idx # 0
    /\ lastPoll.was = 1
    /\ lastPoll.cur = 1
    /\ ~lastPoll.fired
    /\ lastPoll.hitAt # None
    /\ lastPoll.at - lastPoll.hitAt > DEBOUNCE_MS

\* C5: at a rising edge polled less than half a counter period after the
\* sensor's last accepted hit, the hit fires iff the true time elapsed
\* since that hit is greater than DEBOUNCE_MS, wrapped counter or not.
C5_WrapSafeDebounce ==
    (PolledEdge /\ lastPoll.hitAt # None /\ lastPoll.at - lastPoll.hitAt < TICKS_HALF)
       => (lastPoll.fired <=> lastPoll.at - lastPoll.hitAt > DEBOUNCE_MS)

C5_Witness ==
    /\ PolledEdge
    /\ lastPoll.hitAt # None
    /\ lastPoll.hitAt < TICKS_PERIOD
    /\ lastPoll.at >= TICKS_PERIOD
    /\ lastPoll.t < lastPoll.last_ms
    /\ lastPoll.fired

\* C6: while handle_hit runs for a sensor bound to a note with a frequency
\* and a MIDI number, what it has done so far is a prefix of: note-on(number,
\* 127), one tone render at the note's frequency for TONE_DURATION_MS,
\* note-off(number, any velocity); and it is all three when it returns.
C6_NoteOnToneNoteOff ==
    (pc = "hit" /\ SENSORS[idx][4] \in DOMAIN NOTES) =>
       LET f  == NOTES[SENSORS[idx][4]][1]
           mn == NOTES[SENSORS[idx][4]][2]
       IN  /\ Len(hit_log) <= 3
           /\ Len(hit_log) >= 1 =>
                 /\ hit_log[1].op = "uart"
                 /\ hit_log[1].data = <<144, mn, 127>>
           /\ Len(hit_log) >= 2 =>
                 /\ hit_log[2].op = "tone"
                 /\ hit_log[2].f = f
                 /\ hit_log[2].ms = TONE_DURATION_MS
           /\ Len(hit_log) >= 3 =>
                 /\ hit_log[3].op = "uart"
                 /\ Len(hit_log[3].data) = 3
                 /\ hit_log[3].data[1] = 128
                 /\ hit_log[3].data[2] = mn
           /\ todo = << >> => Len(hit_log) = 3

C6_Witness ==
    /\ pc = "hit"
    /\ todo = << >>
    /\ SENSORS[idx][4] = "A4"
    /\ Len(hit_log) = 3
    /\ hit_log[2].f = 44000

\* C7: no sensor is polled while handle_hit runs (the latest poll is the one
\* that dispatched it), and a sensor that went high and low again inside
\* another sensor's tone render fires nothing at its next poll.
C7_PulseDuringRenderDropped ==
    /\ pc = "hit" => (lastPoll.idx = idx /\ lastPoll.fired)
    /\ (lastPoll.idx # 0 /\ lastPoll.missed) => ~lastPoll.fired

C7_Witness ==
    /\ lastPoll.idx # 0
    /\ lastPoll.missed
    /\ lastPoll.prev = 0
    /\ ticks_diff(lastPoll.t, lastPoll.last_ms) > DEBOUNCE_MS
    /\ ~lastPoll.fired

-----------------------------------------------------------------------------
(* firmware/i2s_midi.py *)

SOUNDS_DIR == "/sounds_source"
CHUNK == 1024

NAMES == <<"C", "Cs", "D", "Ds", "E", "F", "Fs", "G", "Gs", "A", "As", "B">>

\* the octave taken as note // 12, without the "- 1"
midi_to_path_octave_from_zero(note) ==
    SOUNDS_DIR \o "/" \o NAMES[(note % 12) + 1] \o ToString(note \div 12)
        \o ".wav"

\* "{}/{}{}.wav".format(SOUNDS_DIR, _NAMES[note % 12], (note // 12) - 1)
midi_to_path(note) ==
    SOUNDS_DIR \o "/" \o NAMES[(note % 12) + 1] \o ToString((note \div 12) - 1)
        \o ".wav"

\* The sample files on the device: one well-formed 16-bit WAV per note of
\* lib/notes.py, named after the note, each declaring SampleDataSize bytes.
SampleFiles == {SOUNDS_DIR \o "/" \o n \o ".wav" : n \in DOMAIN NOTES}
SampleDataSize == 2 * CHUNK + 452
SilenceLen == 512

\* ---- the RIFF/WAVE container, as bytes ----

RIFF == <<82, 73, 70, 70>>          \* b'RIFF'
WAVE == <<87, 65, 86, 69>>          \* b'WAVE'
FMT == <<102, 109, 116, 32>>        \* b'fmt '
DATA == <<100, 97, 116, 97>>        \* b'data'
LIST == <<76, 73, 83, 84>>          \* b'LIST', an id the parser does not know
FACT == <<102, 97, 99, 116>>        \* b'fact', another one

\* little-endian integers as a container stores them
le16(v) == <<v % 256, (v \div 256) % 256>>
le32(v) == <<v % 256, (v \div 256) % 256, (v \div 65536) % 256,
             (v \div 16777216) % 256>>

\* struct.unpack('<H', b)[0] and struct.unpack('<I', b)[0] for a slice of
\* the right length
unpack_H(b) == b[1] + 256 * b[2]
unpack_I_big_endian(b) == 16777216 * b[1] + 65536 * b[2] + 256 * b[3] + b[4]
unpack_I(b) == b[1] + 256 * b[2] + 65536 * b[3] + 16777216 * b[4]

\* a chunk is <<id, declared length, payload>>; a container begins with its
\* 12-byte signature, the chunks follow
RECURSIVE chunk_bytes(_)
chunk_bytes(chunks) ==
    IF chunks = << >> THEN << >>
    ELSE Head(chunks)[1] \o le32(Head(chunks)[2]) \o Head(chunks)[3]
            \o chunk_bytes(Tail(chunks))

wav_bytes(c) == c[1] \o chunk_bytes(c[2])

signature(chunks) == RIFF \o le32(4 + Len(chunk_bytes(chunks))) \o WAVE

\* the payload of a PCM format chunk
fmt_payload(channels, bits, rate) ==
    le16(1) \o le16(channels) \o le32(rate)
        \o le32(rate * channels * (bits \div 8)) \o le16(channels * (bits \div 8))
        \o le16(bits)

\* a format chunk declaring csz bytes (16, or more with trailing zeros, or
\* fewer with the payload cut short)
fmt_chunk(channels, bits, rate, csz) ==
    LET p == fmt_payload(channels, bits, rate) \o <<0, 0>>
    IN  <<FMT, csz, SubSeq(p, 1, csz)>>

\* audio bytes that differ from one position to the next
audio_bytes(size) == [i \in 1..size |-> (i * 37) % 256]

data_chunk(size) == <<DATA, size, audio_bytes(size)>>

\* an unknown chunk of the declared length; its payload reads like the
\* header of a data chunk
other_chunk(cid, csz) == <<cid, csz, SubSeq(DATA \o le32(7) \o FMT, 1, csz)>>

\* a container is <<signature, chunks, made>>, made being the numbers its
\* format and data chunks were built from (<< >> when it has not both)
container(chunks, made) == <<signature(chunks), chunks, made>>

\* ---- parse_wav_header(f) ----

\* f.read(n) at position pos (counted from 0): the bytes that are there
f_read(f, pos, n) == SubSeq(f, pos + 1, Min(pos + n, Len(f)))

\* f.seek(csz, 1): the position moves on by exactly csz
seek_cur_padded(pos, csz) == pos + csz + (csz % 2)
seek_cur(pos, csz) == pos + csz

\* what a call returns: a tuple ("info"), None, or an exception raised by
\* struct.unpack on a slice that is too short; pos is f.tell() afterwards
Returned(kind, tuple, pos) == [kind |-> kind, info |-> tuple, pos |-> pos]

\* "while True:" of parse_wav_header, from position pos with fmt_info so
\* far (<< >> is None)
RECURSIVE scan_chunks(_, _, _)
scan_chunks(f, pos, fmt_info) ==
    LET chunk_hdr == f_read(f, pos, 8)
    IN  IF Len(chunk_hdr) < 8
          THEN Returned("None", << >>, pos + Len(chunk_hdr))
          ELSE LET cid == SubSeq(chunk_hdr, 1, 4)
                   csz == unpack_I(SubSeq(chunk_hdr, 5, 8))
                   fmt == f_read(f, pos + 8, csz)
               IN  IF cid = FMT
                     THEN IF Len(fmt) < 16
                            THEN Returned("ValueError", << >>, pos + 8 + Len(fmt))
                            ELSE scan_chunks(f, pos + 8 + Len(fmt),
                                    << unpack_H(SubSeq(fmt, 3, 4)),
                                       unpack_H(SubSeq(fmt, 15, 16)) \div 8,
                                       unpack_I(SubSeq(fmt, 5, 8)) >>)
                   ELSE IF cid = DATA
                     THEN IF fmt_info = << >>
                            THEN Returned("None", << >>, pos + 8)
                            ELSE Returned("info", fmt_info \o <<csz>>, pos + 8)
                   ELSE scan_chunks(f, seek_cur(pos + 8, csz), fmt_info)

parse_wav_header(f) ==
    LET hdr == f_read(f, 0, 12)
    IN  IF Len(hdr) < 12 \/ SubSeq(hdr, 1, 4) # RIFF \/ SubSeq(hdr, 9, 12) # WAVE
          THEN Returned("None", << >>, Len(hdr))
          ELSE scan_chunks(f, 12, << >>)

\* "if b & 0x80:"
IsStatusAny(b) == TRUE
IsStatus(b) == BitAnd(b, 128) # 0
TwoDataTypes == {144, 128, 160, 176, 224}
OneDataTypes == {192, 208}

\* ---- the containers parse_wav_header is given ----

WavChannels == {1, 2}
WavBits == {8, 16}
WavRates == {22050, 44100}
WavSizes == {0, 100}
FmtSizes == {16, 18}
OtherIds == {LIST, FACT}
OtherSizes == {0, 3, 8}

\* a format chunk and a later data chunk
GoodWav(ch, bits, rate, size, fsz) ==
    container(<<fmt_chunk(ch, bits, rate, fsz), data_chunk(size)>>,
              <<ch, bits, rate, size>>)

Minimal == GoodWav(2, 16, 44100, 100, 16)

\* the containers a play request must drop
BadRiff == <<<<82, 73, 70, 88>> \o SubSeq(Minimal[1], 5, 12), Minimal[2], << >>>>
BadWave == <<SubSeq(Minimal[1], 1, 8) \o <<87, 65, 86, 88>>, Minimal[2], << >>>>
ShortSignature == <<SubSeq(Minimal[1], 1, 8), << >>, << >>>>
NoFmt == container(<<data_chunk(100)>>, << >>)
FmtAfterData ==
    container(<<data_chunk(100), fmt_chunk(2, 16, 44100, 16)>>, << >>)
ShortFmt ==
    container(<<fmt_chunk(2, 16, 44100, 14), data_chunk(100)>>, << >>)
NoData == container(<<fmt_chunk(2, 16, 44100, 16)>>, << >>)

BadWavs == {BadRiff, BadWave, ShortSignature, NoFmt, FmtAfterData, ShortFmt,
            NoData}

WavInputs ==
    {GoodWav(ch, bits, rate, size, fsz) :
        ch \in WavChannels, bits \in WavBits, rate \in WavRates,
        size \in WavSizes, fsz \in FmtSizes} \cup BadWavs

\* Player.play, "if self.uart.any():": bytes are waiting in the receive
\* buffer
uart_any_never(buf) == FALSE
uart_any(buf) == buf # << >>

\* "if b is None: continue" / "if sx is None ...: break": where the loop
\* goes on after a read at position at has yielded no data
AfterTimeoutRetry(at) == at
AfterTimeout(at) == "run"

\* "if msg == 0x90 and data2 > 0:"
StartsPlaybackAnyVelocity(msg, data2) == msg = 144
StartsPlayback(msg, data2) == msg = 144 /\ data2 > 0

\* The files of SOUNDS_DIR, each as the bytes parse_wav_header reads (the
\* audio itself is left out): a 16-bit mono sample of SampleDataSize bytes
\* per note of lib/notes.py, and four invalid containers.  Any other path
\* is a file that is not there.
SampleHead ==
    wav_bytes(container(<<fmt_chunk(1, 16, 44100, 16), <<DATA, SampleDataSize, << >>>>>>,
                        <<1, 16, 44100, SampleDataSize>>))

BadFiles ==
    ( midi_to_path(49) :> wav_bytes(BadRiff) ) @@
    ( midi_to_path(50) :> wav_bytes(NoFmt) ) @@
    ( midi_to_path(51) :> wav_bytes(ShortFmt) ) @@
    ( midi_to_path(52) :> wav_bytes(NoData) )

Disk == [p \in SampleFiles |-> SampleHead] @@ BadFiles

\* Player.play: "f = open(path, 'rb')" and "info = parse_wav_header(f)"
play_open(path) ==
    IF path \in DOMAIN Disk THEN parse_wav_header(Disk[path])
    ELSE Returned("OSError", << >>, 0)

\* where Player.run is after Player.play has opened and parsed: streaming,
\* back in its loop, or ended by the exception
AfterOpen(kind) ==
    IF kind = "info" THEN "play"
    ELSE IF kind = "ValueError" THEN "crashed"
    ELSE "run"

\* f.close()
RECURSIVE f_close(_, _)
f_close(files, path) ==
    IF files = << >> THEN << >>
    ELSE IF Head(files) = path THEN Tail(files)
    ELSE <<Head(files)>> \o f_close(Tail(files), path)

NewStream(path, size) ==
    [path |-> path, size |-> size, sent |-> 0, late |-> 0, closed |-> FALSE,
     aborted |-> FALSE]

\* Player.run after data1 is known: "msg = status & 0xF0" and the branch on
\* it, as the next position of the loop
AfterData1(st) ==
    IF BitAnd(st, 240) \in TwoDataTypes THEN "data2"
    ELSE IF BitAnd(st, 240) \in OneDataTypes THEN "run"
    ELSE IF st = 240 THEN "sysex"
    ELSE "run"

-----------------------------------------------------------------------------
(* The MIDI-driven mode: a MidiOut sender wired to the Player's UART *)

\* the arguments explored, in and out of range
NoteInputs == {0 - 1, 0, 69, 127, 300}
VelocityInputs == {0, 1, 127, 200}
ChannelInputs == {0, 9, 31}

MainOff ==
    /\ pc = "off"
    /\ clock = 0
    /\ raw = << >>
    /\ state = << >>
    /\ now = 0
    /\ idx = 1
    /\ current = 0
    /\ hit_this_cycle = FALSE
    /\ breath_counter = 0
    /\ led = <<0, 0, 0>>
    /\ todo = << >>
    /\ hit_log = << >>
    /\ cycles = 0
    /\ quiets = 0
    /\ initHigh = << >>
    /\ everLow = << >>
    /\ everHit = << >>
    /\ polled = << >>
    /\ nowAt = 0
    /\ hitAt = << >>
    /\ lastEdge = << >>
    /\ pulse = << >>
    /\ lastPoll = NoPoll

InitMidi ==
    /\ MainOff
    /\ WavOff
    /\ PlayOff /\ CallOff /\ BusOff
    /\ arg \in NoteInputs \X VelocityInputs
    /\ \E ch \in ChannelInputs : MidiIdle(ch)

\* what a call of MidiOut does: the bytes go onto the wire
Written(op, a, v, data) ==
    /\ Len(calls) < MaxCalls
    /\ calls' = Append(calls, <<op, a, v>>)
    /\ wire' = uart_write(wire, data)
    /\ writes' = Append(writes, SubSeq(wire', Len(wire) + 1, Len(wire')))
    /\ UNCHANGED <<channel, arg, rx, mpc, status, data1, decoded, gap, playing,
                   played, audio, opened, streams, timedOut>>
    /\ UNCHANGED <<mainVars, histVars, wavVars, restVars>>

\* midi.note_on(note, velocity)
SendNoteOn ==
    Written("note_on", arg[1], arg[2], note_on(channel, arg[1], arg[2]))

\* midi.note_off(note, velocity), velocity given or left at its default 0
SendNoteOff ==
    \E v \in {arg[2], 0} :
        Written("note_off", arg[1], v, note_off(channel, arg[1], v))

\* midi.program_change(program)
SendProgramChange ==
    Written("program_change", arg[1], 0, program_change(channel, arg[1]))

\* the UART carries the next byte into the receive buffer
Arrive ==
    /\ wire # << >>
    /\ rx' = Append(rx, Head(wire))
    /\ wire' = Tail(wire)
    /\ UNCHANGED <<channel, arg, calls, writes, mpc, status, data1, decoded, gap,
                   playing, played, audio, opened, streams, timedOut>>
    /\ UNCHANGED <<mainVars, histVars, wavVars, restVars>>

\* Player.run: "if not self.uart.any(): ...; continue" is passed, the first
\* byte is read; a status byte is stored, a data byte is data1 under the
\* running status
ReadFirst ==
    /\ mpc = "run"
    /\ rx # << >>
    /\ rx' = Tail(rx)
    /\ IF IsStatus(Head(rx))
         THEN /\ status' = Head(rx)
              /\ mpc' = "data1"
              /\ UNCHANGED data1
         ELSE /\ data1' = BitAnd(Head(rx), 127)
              /\ mpc' = AfterData1(status)
              /\ UNCHANGED status
    /\ decoded' = IF mpc' = "run" /\ BitAnd(status', 240) \in OneDataTypes
                    THEN Append(decoded, <<BitAnd(status', 240), data1', None>>)
                    ELSE decoded
    /\ UNCHANGED <<channel, arg, calls, writes, wire, gap, playing, played, audio,
                   opened, streams, timedOut>>
    /\ UNCHANGED <<mainVars, histVars, wavVars, restVars>>

\* Player.run: "data1 = self.uart.read(1)" after a status byte; None (the
\* 10 ms timeout) goes back to the top of the loop
ReadData1 ==
    /\ mpc = "data1"
    /\ IF rx = << >>
         THEN /\ mpc' = AfterTimeout(mpc)
              /\ gap' = TRUE
              /\ timedOut' = timedOut \cup {mpc}
              /\ UNCHANGED <<rx, data1, decoded>>
         ELSE /\ rx' = Tail(rx)
              /\ data1' = BitAnd(Head(rx), 127)
              /\ mpc' = AfterData1(status)
              /\ decoded' = IF BitAnd(status, 240) \in OneDataTypes
                              THEN Append(decoded, <<BitAnd(status, 240), data1', None>>)
                              ELSE decoded
              /\ UNCHANGED <<gap, timedOut>>
    /\ UNCHANGED <<channel, arg, calls, writes, wire, status, playing, played,
                   audio, opened, streams>>
    /\ UNCHANGED <<mainVars, histVars, wavVars, restVars>>

\* Player.run: "data2 = self.uart.read(1)"; a note-on with velocity > 0
\* calls self.play(midi_to_path(data1)).  Player.play up to its loop: open
\* raising OSError returns; parse_wav_header returning None closes the file
\* and returns; an exception raised inside parse_wav_header is caught
\* nowhere, it ends Player.run with the file still open; otherwise the
\* stream begins with remaining = data_size
ReadData2 ==
    /\ mpc = "data2"
    /\ IF rx = << >>
         THEN /\ mpc' = AfterTimeout(mpc)
              /\ gap' = TRUE
              /\ timedOut' = timedOut \cup {mpc}
              /\ UNCHANGED <<rx, decoded, playing, played, opened, streams>>
         ELSE LET msg   == BitAnd(status, 240)
                  data2 == BitAnd(Head(rx), 127)
                  path  == midi_to_path(data1)
                  got   == play_open(path)
              IN  /\ rx' = Tail(rx)
                  /\ decoded' = Append(decoded, <<msg, data1, data2>>)
                  /\ IF StartsPlayback(msg, data2)
                       THEN /\ played' = Append(played, path)
                            /\ mpc' = AfterOpen(got.kind)
                            /\ opened' = IF got.kind \in {"info", "ValueError"}
                                           THEN Append(opened, path)
                                           ELSE opened
                            /\ IF got.kind = "info"
                                 THEN /\ playing' = [path |-> path,
                                                     remaining |-> got.info[4]]
                                      /\ streams' = Append(streams,
                                            NewStream(path, got.info[4]))
                                 ELSE UNCHANGED <<playing, streams>>
                       ELSE /\ mpc' = "run"
                            /\ UNCHANGED <<playing, played, opened, streams>>
                  /\ UNCHANGED <<gap, timedOut>>
    /\ UNCHANGED <<channel, arg, calls, writes, wire, status, data1, audio>>
    /\ UNCHANGED <<mainVars, histVars, wavVars, restVars>>

\* Player.run: the SysEx loop, "sx = self.uart.read(1)"
SysexSkip ==
    /\ mpc = "sysex"
    /\ IF rx = << >>
         THEN /\ mpc' = AfterTimeout(mpc)
              /\ gap' = TRUE
              /\ timedOut' = timedOut \cup {mpc}
              /\ UNCHANGED rx
         ELSE /\ rx' = Tail(rx)
              /\ mpc' = IF Head(rx) = 247 THEN "run" ELSE "sysex"
              /\ UNCHANGED <<gap, timedOut>>
    /\ UNCHANGED <<channel, arg, calls, writes, wire, status, data1, decoded,
                   playing, played, audio, opened, streams>>
    /\ UNCHANGED <<mainVars, histVars, wavVars, restVars>>

\* Player.play: one pass of "while remaining > 0" that reads and forwards a
\* chunk of min(CHUNK, remaining) bytes
PlayChunk ==
    /\ mpc = "play"
    /\ playing.remaining > 0
    /\ ~uart_any(rx)
    /\ LET n == Min(CHUNK, playing.remaining)
       IN  /\ audio' = Append(audio, <<"pcm", n>>)
           /\ playing' = [playing EXCEPT !.remaining = @ - n]
           /\ streams' = [streams EXCEPT
                            ![Len(streams)].sent = @ + n,
                            ![Len(streams)].late = @ + (IF rx = << >> THEN 0 ELSE 1)]
    /\ UNCHANGED <<channel, arg, calls, writes, wire, rx, mpc, status, data1,
                   decoded, gap, played, opened, timedOut>>
    /\ UNCHANGED <<mainVars, histVars, wavVars, restVars>>

\* Player.play: the loop ends (remaining is 0, or "if self.uart.any():
\* break"), the silence is written and the file closed
PlayEnd ==
    /\ mpc = "play"
    /\ playing.remaining = 0 \/ uart_any(rx)
    /\ audio' = Append(audio, <<"silence", SilenceLen>>)
    /\ streams' = [streams EXCEPT ![Len(streams)].closed = TRUE,
                                  ![Len(streams)].aborted = playing.remaining > 0]
    /\ opened' = f_close(opened, playing.path)
    /\ playing' = NoPlay
    /\ mpc' = "run"
    /\ UNCHANGED <<channel, arg, calls, writes, wire, rx, status, data1, decoded,
                   gap, played, timedOut>>
    /\ UNCHANGED <<mainVars, histVars, wavVars, restVars>>

NextMidi ==
    \/ SendNoteOn
    \/ SendNoteOff
    \/ SendProgramChange
    \/ Arrive
    \/ ReadFirst
    \/ ReadData1
    \/ ReadData2
    \/ PlayChunk
    \/ PlayEnd

SpecMidi == InitMidi /\ [][NextMidi]_vars

-----------------------------------------------------------------------------
(* Properties of the MIDI encoder and decoder (specification SpecMidi) *)

IsNoteCall(i) == calls[i][1] \in {"note_on", "note_off"}

\* C8: every note_on / note_off call, whatever integers it is given, has
\* written exactly the three bytes status | channel, note mod 128,
\* velocity mod 128 with the channel in 0..15 and both data bytes in 0..127.
C8_NoteMessageBytes ==
    \A i \in 1..Len(calls) :
       IsNoteCall(i) =>
          /\ channel \in 0..15
          /\ writes[i] = << (IF calls[i][1] = "note_on" THEN 144 ELSE 128) + channel,
                            calls[i][2] % 128,
                            calls[i][3] % 128 >>
          /\ writes[i][2] \in 0..127
          /\ writes[i][3] \in 0..127

C8_Witness ==
    \E i \in 1..Len(calls) :
       /\ calls[i][1] = "note_on"
       /\ calls[i][2] \notin 0..127
       /\ calls[i][3] \notin 0..127
       /\ Len(writes[i]) = 3

\* C9: every program_change call has written exactly the two bytes
\* 0xC0 | channel, program mod 128.
C9_ProgramChangeBytes ==
    \A i \in 1..Len(calls) :
       calls[i][1] = "program_change" =>
          writes[i] = <<192 + channel, calls[i][2] % 128>>

C9_Witness ==
    \E i \in 1..Len(calls) :
       /\ calls[i][1] = "program_change"
       /\ calls[i][2] = 300
       /\ writes[i] = <<192 + channel, 44>>

\* the sender called note_on(n, v) and then note_off(n, 0) with n and v in
\* 0..127, and the Player has consumed every byte without a read for a data
\* byte timing out
RoundTripDone ==
    /\ Len(calls) = 2
    /\ calls[1][1] = "note_on"
    /\ calls[2] = <<"note_off", calls[1][2], 0>>
    /\ calls[1][2] \in 0..127
    /\ calls[1][3] \in 0..127
    /\ wire = << >>
    /\ rx = << >>
    /\ mpc = "run"
    /\ ~gap

\* C10: the bytes of note_on(n, v) followed by note_off(n, 0), decoded by
\* Player.run, give the two messages (note-on, n, v) and (note-off, n, 0) in
\* this order.
C10_EncodeDecodeRoundTrip ==
    RoundTripDone =>
       decoded = << <<144, calls[1][2], calls[1][3]>>, <<128, calls[1][2], 0>> >>

C10_Witness ==
    /\ RoundTripDone
    /\ calls[1] = <<"note_on", 69, 127>>
    /\ channel = 9
    /\ Len(decoded) = 2
    /\ played = <<"/sounds_source/A4.wav">>

-----------------------------------------------------------------------------
(* parse_wav_header on its own (specification SpecWav)                     *)

\* the index of the first data chunk, or one past the last chunk
RECURSIVE DataIndex(_)
DataIndex(chunks) ==
    IF chunks = << >> \/ Head(chunks)[1] = DATA THEN 1
    ELSE 1 + DataIndex(Tail(chunks))

\* the bytes of the unknown chunks of a chunk list
RECURSIVE OtherBytes(_)
OtherBytes(chunks) ==
    IF chunks = << >> THEN 0
    ELSE (IF Head(chunks)[1] \in OtherIds THEN 8 + Head(chunks)[2] ELSE 0)
            + OtherBytes(Tail(chunks))

\* the container c with chunk k put before its i-th chunk, the length field
\* of a whole signature brought up to date
WithChunk(c, i, k) ==
    LET chunks == SubSeq(c[2], 1, i - 1) \o <<k>> \o SubSeq(c[2], i, Len(c[2]))
        sig    == IF Len(c[1]) = 12
                    THEN SubSeq(c[1], 1, 4) \o le32(4 + Len(chunk_bytes(chunks)))
                            \o SubSeq(c[1], 9, 12)
                    ELSE c[1]
    IN  <<sig, chunks, c[3]>>

InitWav ==
    /\ MainOff
    /\ PlayOff /\ CallOff /\ BusOff
    /\ arg = <<0, 0>>
    /\ MidiIdle(0)
    /\ wpc = "built"
    /\ base \in WavInputs
    /\ wav = base
    /\ info = << >>
    /\ baseInfo = << >>
    /\ first = << >>

\* an unknown chunk is inserted before the data chunk
InsertChunk ==
    /\ wpc = "built"
    /\ Len(wav[2]) - Len(base[2]) < MaxInserted
    /\ \E cid \in OtherIds, csz \in OtherSizes, i \in 1..DataIndex(wav[2]) :
          wav' = WithChunk(wav, i, other_chunk(cid, csz))
    /\ UNCHANGED <<wpc, base, info, baseInfo, first>>
    /\ UNCHANGED <<mainVars, histVars, midiVars, restVars>>

\* info = parse_wav_header(f), then f.read(1)
ParseWav ==
    /\ wpc = "built"
    /\ wpc' = "parsed"
    /\ info' = parse_wav_header(wav_bytes(wav))
    /\ baseInfo' = parse_wav_header(wav_bytes(base))
    /\ first' = f_read(wav_bytes(wav), info'.pos, 1)
    /\ UNCHANGED <<base, wav>>
    /\ UNCHANGED <<mainVars, histVars, midiVars, restVars>>

NextWav ==
    \/ InsertChunk
    \/ ParseWav

SpecWav == InitWav /\ [][NextWav]_vars

\* C18: for a container with a valid signature, a format chunk and a later
\* data chunk, parse_wav_header returns (channels, bits / 8, rate, length of
\* the data chunk) as the chunks hold them, and the stream is left at the
\* first byte of the audio data; the minimal container of 2 channels,
\* 16 bit, 44100 Hz and 100 bytes gives (2, 2, 44100, 100).
C18_ParseValidHeader ==
    /\ (wpc = "parsed" /\ wav[3] # << >>) =>
          /\ info.kind = "info"
          /\ info.info = <<wav[3][1], wav[3][2] \div 8, wav[3][3], wav[3][4]>>
          /\ info.pos = Len(wav_bytes(wav)) - wav[3][4]
          /\ first = (IF wav[3][4] = 0 THEN << >> ELSE <<audio_bytes(wav[3][4])[1]>>)
    /\ (wpc = "parsed" /\ wav = Minimal) => info.info = <<2, 2, 44100, 100>>

C18_Witness ==
    /\ wpc = "parsed"
    /\ wav = Minimal
    /\ info = Returned("info", <<2, 2, 44100, 100>>, 44)
    /\ first = <<37>>

\* C19: unknown chunks inserted before the data chunk, whatever length they
\* declare, leave the result of parse_wav_header as it is, move the position
\* it stops at by exactly their bytes, and the byte read next is the same.
C19_UnknownChunksSkipped ==
    wpc = "parsed" =>
       /\ info.kind = baseInfo.kind
       /\ info.info = baseInfo.info
       /\ info.kind = "info" =>
             /\ info.pos = baseInfo.pos + OtherBytes(wav[2])
             /\ first = f_read(wav_bytes(base), baseInfo.pos, 1)

C19_Witness ==
    /\ wpc = "parsed"
    /\ base = Minimal
    /\ Len(wav[2]) = 3
    /\ wav[2][2] = other_chunk(LIST, 3)
    /\ info = Returned("info", <<2, 2, 44100, 100>>, 55)
    /\ first = <<37>>

-----------------------------------------------------------------------------
(* Player.run fed by any MIDI source (specification SpecDec): the bytes    *)
(* come in message-sized pieces, well formed or not, with any timing.      *)

NoteA == 60           \* C4, a sample that is there
NoteB == 69           \* A4, another one
BadNotes == 48..52    \* C3 is not there; Cs3, D3, Ds3 and E3 are invalid

\* note-on with velocity > 0 for a sample that is there
TriggerMsgs == { <<144, NoteA, 100>>, <<153, NoteB, 1>> }
\* note-on with velocity > 0 for the other files
BadTriggerMsgs == { <<144, n, 100>> : n \in BadNotes }
\* note-on with velocity 0 and note-off
ReleaseMsgs == { <<144, NoteA, 0>>, <<128, NoteA, 64>> }
\* control change, pitch bend, program change, channel pressure
OtherMsgs == { <<176, 7, 100>>, <<224, 0, 64>>, <<192, 5>>, <<208, 5>> }
\* data bytes alone, for the running status
RunningPairs == { <<NoteB, 100>>, <<NoteA, 0>> }
\* system exclusive: empty, and with one byte of payload
SysexMsgs == { <<240, 247>>, <<240, 1, 247>> }
\* a system real-time byte, a status byte alone, a message cut short
BrokenMsgs == { <<248>>, <<144>>, <<144, NoteA>> }

ChannelMsgs == TriggerMsgs \cup BadTriggerMsgs \cup ReleaseMsgs \cup OtherMsgs

Pieces == ChannelMsgs \cup RunningPairs \cup SysexMsgs \cup BrokenMsgs

InitDec ==
    /\ MainOff
    /\ WavOff
    /\ PlayOff /\ CallOff /\ BusOff
    /\ arg = <<0, 0>>
    /\ MidiIdle(0)

\* the source sends its next piece once the last one has left the wire
Feed ==
    /\ wire = << >>
    /\ \E piece \in Pieces : Written("raw", 0, 0, piece)

NextDec ==
    \/ Feed
    \/ Arrive
    \/ ReadFirst
    \/ ReadData1
    \/ ReadData2
    \/ SysexSkip
    \/ PlayChunk
    \/ PlayEnd

SpecDec == InitDec /\ [][NextDec]_vars

\* every byte sent has been read and no read has yielded no data
AllRead == wire = << >> /\ rx = << >> /\ timedOut = {}

\* the message a complete channel message decodes to
MessageOf(m) ==
    <<BitAnd(m[1], 240), m[2], IF Len(m) = 3 THEN m[3] ELSE None>>

IsTrigger(d) == d[1] = 144 /\ d[3] > 0

\* the paths of the decoded messages that are note-on with velocity > 0
RECURSIVE TriggerPaths(_)
TriggerPaths(msgs) ==
    IF msgs = << >> THEN << >>
    ELSE (IF IsTrigger(Head(msgs)) THEN <<midi_to_path(Head(msgs)[2])>> ELSE << >>)
            \o TriggerPaths(Tail(msgs))

\* what a run of complete channel messages and bare data pairs decodes to
\* when the first data byte of a pair reuses the status st stored last
RECURSIVE RunningDecode(_, _)
RunningDecode(pieces, st) ==
    IF pieces = << >> THEN << >>
    ELSE LET p == Head(pieces)
             t == BitAnd(st, 240)
         IN  IF p \in ChannelMsgs
               THEN <<MessageOf(p)>> \o RunningDecode(Tail(pieces), p[1])
             ELSE IF t \in TwoDataTypes
               THEN << <<t, p[1], p[2]>> >> \o RunningDecode(Tail(pieces), st)
             ELSE << <<t, p[1], None>>, <<t, p[2], None>> >>
                     \o RunningDecode(Tail(pieces), st)

Sent(set) == \A i \in 1..Len(writes) : writes[i] \in set

\* C11: when complete channel messages and bare pairs of data bytes have
\* all been read without a read timing out, every status byte has replaced
\* the stored status and every bare pair has been decoded as a message of
\* the status stored before it: a note-on followed by k - 1 pairs gives k
\* note-on messages.
C11_RunningStatus ==
    (AllRead /\ calls # << >> /\ Sent(ChannelMsgs \cup RunningPairs)
        /\ writes[1] \in ChannelMsgs) =>
       /\ decoded = RunningDecode(writes, 0)
       /\ writes[Len(writes)] \in ChannelMsgs => status = writes[Len(writes)][1]

C11_Witness ==
    /\ AllRead
    /\ writes = << <<144, NoteA, 100>>, <<NoteB, 100>> >>
    /\ decoded = << <<144, NoteA, 100>>, <<144, NoteB, 100>> >>
    /\ status = 144

\* C12: Player.play has been called exactly for the decoded note-on
\* messages with velocity > 0, in their order and with the path of their
\* note; and complete channel messages read without a timeout have been
\* decoded one for one, each with its two or its one data byte.
C12_PlaybackOnlyOnNoteOn ==
    /\ played = TriggerPaths(decoded)
    /\ Len(streams) <= Len(played)
    /\ (AllRead /\ Sent(ChannelMsgs)) =>
          decoded = [i \in 1..Len(writes) |-> MessageOf(writes[i])]

C12_Witness ==
    /\ AllRead
    /\ writes = << <<192, 5>>, <<153, NoteB, 1>> >>
    /\ decoded = << <<192, 5, None>>, <<144, NoteB, 1>> >>
    /\ played = <<"/sounds_source/A4.wav">>
    /\ mpc = "play"

\* C13 as stated: a channel message that follows a system-exclusive message
\* (0xF0 ... 0xF7) is decoded as it would be alone, so a note-on after the
\* empty one 0xF0 0xF7 starts playback.
C13_MessageAfterSysex ==
    (AllRead /\ Len(writes) = 2 /\ writes[1] \in SysexMsgs
        /\ writes[2] \in ChannelMsgs) =>
       /\ decoded = <<MessageOf(writes[2])>>
       /\ played = TriggerPaths(decoded)

\* C14 as stated: after a system real-time byte, a status byte alone or a
\* message cut short, the complete message that begins at the next status
\* byte is the one decoded, and nothing else is.
C14_ResyncAtNextStatus ==
    (AllRead /\ Len(writes) = 2 /\ writes[1] \in BrokenMsgs
        /\ writes[2] \in ChannelMsgs) =>
       decoded = <<MessageOf(writes[2])>>

Reading == {"data1", "data2", "sysex"}

\* C15: at each position where Player.run reads a data byte and none has
\* come, it can take its step, and that step leads to the top of the loop.
C15_TimeoutReturnsToLoop ==
    [][/\ (mpc \in Reading /\ rx = << >>) =>
             ENABLED (ReadData1 \/ ReadData2 \/ SysexSkip)
       /\ (mpc \in Reading /\ rx = << >> /\ rx' = rx /\ wire' = wire) =>
             (mpc' = "run" /\ timedOut' = timedOut \cup {mpc})]_vars

C15_Witness ==
    /\ timedOut = Reading
    /\ mpc = "run"

\* C16 as stated: a sample that has begun to stream and whose note-on is
\* followed by a note-off, or by a note-on with velocity 0, is streamed to
\* the end of its data.
C16_ReleaseDoesNotStop ==
    (AllRead /\ mpc = "run" /\ Len(writes) = 2 /\ writes[1] \in TriggerMsgs
        /\ writes[2] \in ReleaseMsgs /\ Len(streams) = 1
        /\ streams[1].sent > 0) =>
       streams[1].sent = streams[1].size

\* C17: no chunk is begun once a byte has come in; a stream that was cut
\* short has forwarded less than its declared length and its file is closed;
\* only the file being streamed is open; and when the note-on for B has cut
\* the stream of A short, Player.play is called for B next.
C17_VoiceStealing ==
    /\ \A i \in 1..Len(streams) :
          /\ streams[i].late = 0
          /\ streams[i].aborted => (streams[i].sent < streams[i].size
                                    /\ streams[i].closed)
          /\ i < Len(streams) => streams[i].closed
    /\ mpc = "play" => opened = <<playing.path>>
    /\ mpc \in {"run"} \cup Reading => opened = << >>
    /\ (AllRead /\ Len(writes) >= 2 /\ writes[1] \in TriggerMsgs
          /\ writes[2] \in TriggerMsgs \cup {<<NoteB, 100>>}
          /\ streams[1].aborted) =>
             /\ Len(played) >= 2
             /\ played[1] = midi_to_path(writes[1][2])
             /\ played[2] = midi_to_path(writes[2][Len(writes[2]) - 1])
             /\ Len(streams) >= 2
             /\ streams[2].path = played[2]

C17_Witness ==
    /\ writes = << <<144, NoteA, 100>>, <<153, NoteB, 1>> >>
    /\ mpc = "play"
    /\ Len(streams) = 2
    /\ streams[1].aborted
    /\ streams[1].sent = CHUNK
    /\ streams[1].closed
    /\ playing.path = "/sounds_source/A4.wav"
    /\ opened = <<"/sounds_source/A4.wav">>

\* C20 as stated: once the note-on for a file that is not there or is no
\* valid container has been dispatched, nothing has been written to the
\* audio sink, no file is open and Player.run is still running.
C20_MediaFailureDropped ==
    (calls # << >> /\ writes[1] \in BadTriggerMsgs /\ Len(decoded) = 1) =>
       /\ audio = << >>
       /\ opened = << >>
       /\ mpc \in {"run"} \cup Reading

\* C23 as stated: at every point at most one sample file is open, and
\* outside Player.play none is: the file a play request opened was closed
\* when play ended, by completion, by abort or by a header failure.
C23_FileClosedAfterPlay ==
    /\ Len(opened) <= 1
    /\ mpc # "play" => opened = << >>

-----------------------------------------------------------------------------
(* Player.play of firmware/i2s_midi.py called once on a file, byte by byte *)

\* "val = (self.buf[i] - 128) << 8"
sample16_no_offset(b) == b * 256
sample16(b) == (b - 128) * 256

\* "buf16[i * 2] = val & 0xFF; buf16[i * 2 + 1] = (val >> 8) & 0xFF" for i
\* in range(n): the 2n bytes of buf16 for the n bytes read into buf
expand8(chunk) ==
    [k \in 1..(2 * Len(chunk)) |->
        LET val == sample16(chunk[(k + 1) \div 2])
        IN  IF k % 2 = 1 THEN val % 256 ELSE (val \div 256) % 256]

\* self.silence = bytearray(512)
silence == [k \in 1..SilenceLen |-> 0]

\* "self.audio.write(self.silence)" after the loop
flush_skipped(written) == written
flush(written) == Append(written, <<"silence", silence>>)

\* the files explored: mono and stereo, 8 and 16 bit, with no audio, with
\* less than a chunk and with a chunk and two bytes; files that end before
\* the declared data length; files parse_wav_header does not accept; and
\* no file at the path
PlaySizes == {0, 3, CHUNK + 2}
PlayWavs ==
    {wav_bytes(GoodWav(ch, bits, 44100, size, 16)) :
        ch \in WavChannels, bits \in WavBits, size \in PlaySizes}
CutShort(f, missing) == SubSeq(f, 1, Len(f) - missing)
TruncatedWavs ==
    {CutShort(wav_bytes(GoodWav(1, bits, 44100, CHUNK + 2, 16)), CHUNK - 1) :
        bits \in WavBits}
    \cup {CutShort(wav_bytes(GoodWav(1, bits, 44100, 3, 16)), 3) :
             bits \in WavBits}
\* files with a chunk after the audio data
TrailedWavs ==
    {wav_bytes(GoodWav(1, bits, 44100, 3, 16)) \o chunk_bytes(<<other_chunk(LIST, 8)>>) :
        bits \in WavBits}
RejectedWavs == {wav_bytes(NoFmt), wav_bytes(BadRiff), wav_bytes(ShortFmt)}
NoFile == <<FALSE, << >>>>
PlayInputs ==
    {<<TRUE, b>> : b \in PlayWavs \cup TruncatedWavs \cup TrailedWavs
                            \cup RejectedWavs}
      \cup {NoFile}

InitPlay ==
    /\ MainOff
    /\ arg = <<0, 0>>
    /\ MidiIdle(0)
    /\ WavOff /\ CallOff /\ BusOff
    /\ ppc = "call"
    /\ pfile \in PlayInputs
    /\ plocal = << >>
    /\ sink = << >>
    /\ fopen = 0
    /\ pending \in BOOLEAN

\* play up to the loop: open (OSError: return), parse_wav_header (None:
\* close and return; an exception leaves play with the file open),
\* "remaining = data_size; is_8bit = (sw == 1)"
PlayCall ==
    /\ ppc = "call"
    /\ IF ~pfile[1]
         THEN /\ ppc' = "returned"
              /\ UNCHANGED <<plocal, fopen>>
         ELSE LET r == parse_wav_header(pfile[2])
              IN  IF r.kind = "None"
                    THEN /\ ppc' = "returned"
                         /\ UNCHANGED <<plocal, fopen>>
                  ELSE IF r.kind = "ValueError"
                    THEN /\ ppc' = "raised"
                         /\ fopen' = fopen + 1
                         /\ UNCHANGED plocal
                  ELSE /\ ppc' = "loop"
                       /\ fopen' = fopen + 1
                       /\ plocal' = [pos |-> r.pos, remaining |-> r.info[4],
                                      is_8bit |-> r.info[2] = 1,
                                      data_size |-> r.info[4], asked |-> 0]
    /\ UNCHANGED <<pfile, sink, pending>>
    /\ UNCHANGED <<mainVars, histVars, midiVars, wavVars, callVars, busVars>>

\* min(CHUNK, remaining): the bytes a read asks for
request_whole_chunk == CHUNK
request == Min(CHUNK, plocal.remaining)

\* f.readinto(self.buf, min(CHUNK, remaining)): the bytes read
next_chunk == f_read(pfile[2], plocal.pos, request)

\* the loop is left: "while remaining > 0", "if self.uart.any(): break",
\* "if n == 0: break"
leaves_loop == plocal.remaining <= 0 \/ pending \/ Len(next_chunk) = 0

\* one turn of the loop that writes a chunk
PlayWrite ==
    /\ ppc = "loop"
    /\ ~leaves_loop
    /\ sink' = Append(sink, IF plocal.is_8bit
                               THEN <<"buf16", expand8(next_chunk)>>
                               ELSE <<"buf", next_chunk>>)
    /\ plocal' = [plocal EXCEPT !.pos = @ + Len(next_chunk),
                                !.remaining = @ - Len(next_chunk),
                                !.asked = request]
    /\ UNCHANGED <<ppc, pfile, fopen, pending>>
    /\ UNCHANGED <<mainVars, histVars, midiVars, wavVars, callVars, busVars>>

\* the loop is left: the silence is written, the file closed
PlayFlush ==
    /\ ppc = "loop"
    /\ leaves_loop
    /\ sink' = flush(sink)
    /\ fopen' = fopen - 1
    /\ ppc' = "returned"
    /\ UNCHANGED <<pfile, plocal, pending>>
    /\ UNCHANGED <<mainVars, histVars, midiVars, wavVars, callVars, busVars>>

\* a MIDI byte reaches the UART while play runs
MidiArrives ==
    /\ ppc \in {"call", "loop"}
    /\ ~pending
    /\ pending' = TRUE
    /\ UNCHANGED <<ppc, pfile, plocal, sink, fopen>>
    /\ UNCHANGED <<mainVars, histVars, midiVars, wavVars, callVars, busVars>>

NextPlay ==
    \/ PlayCall
    \/ PlayWrite
    \/ PlayFlush
    \/ MidiArrives

SpecPlay == InitPlay /\ [][NextPlay]_vars

\* play is a straight run of code: once called it takes its next step
SpecPlayFair == SpecPlay /\ WF_vars(PlayCall \/ PlayWrite \/ PlayFlush)

\* the bytes of the audio buffers written so far, in order
RECURSIVE Forwarded(_)
Forwarded(written) ==
    IF written = << >> THEN << >>
    ELSE (IF Head(written)[1] = "silence" THEN << >> ELSE Head(written)[2])
           \o Forwarded(Tail(written))

\* the two bytes lo, hi read as a little-endian signed 16-bit value
Signed16(lo, hi) ==
    IF lo + 256 * hi >= 32768 THEN lo + 256 * hi - 65536 ELSE lo + 256 * hi

\* the header of the files explored: signature, format chunk, data header
HeaderLen == 12 + (8 + 16) + 8

\* C21: in an 8-bit stream, the n bytes read from the file so far have been
\* forwarded as exactly 2n bytes: byte i of the audio data, b, as the pair
\* at 2i-1 and 2i, whose low byte is 0 and whose little-endian signed
\* 16-bit value is (b - 128) * 256, so that 0x00 is forwarded as -32768,
\* 0x80 as 0 and 0xFF as 32512; a single write carries the 2n bytes of a
\* chunk of n <= CHUNK bytes.
C21_EightBitNormalised ==
    (ppc \in {"loop", "returned"} /\ plocal # << >> /\ plocal.is_8bit) =>
       LET n   == plocal.pos - HeaderLen
           out == Forwarded(sink)
       IN  /\ Len(out) = 2 * n
           /\ \A i \in 1..n :
                 LET b == pfile[2][HeaderLen + i]
                     v == Signed16(out[2 * i - 1], out[2 * i])
                 IN  /\ out[2 * i - 1] = 0
                     /\ out[2 * i] \in 0..255
                     /\ v = (b - 128) * 256
                     /\ b = 0 => v = 0 - 32768
                     /\ b = 128 => v = 0
                     /\ b = 255 => v = 32512
           /\ \A k \in 1..Len(sink) :
                 sink[k][1] # "silence" =>
                    /\ sink[k][1] = "buf16"
                    /\ Len(sink[k][2]) % 2 = 0
                    /\ Len(sink[k][2]) \in 2..(2 * CHUNK)

\* an 8-bit file of a chunk and two bytes has been played to its end
C21_Witness ==
    /\ ppc = "returned"
    /\ plocal # << >>
    /\ plocal.is_8bit
    /\ plocal.remaining = 0
    /\ Len(sink) = 3
    /\ Len(sink[1][2]) = 2 * CHUNK
    /\ Len(sink[2][2]) = 4
    /\ SubSeq(sink[1][2], 1, 4) = <<0, 37 + 128, 0, 74 + 128>>

\* C22: while a stream is being written nothing but audio has reached the
\* sink; once play has returned for a file whose header parsed, the sink
\* holds the audio chunks and then the 512 zero bytes of the silence
\* buffer, once and last, whether the declared length was exhausted, the
\* file ended early or new input aborted the stream; a play request whose
\* header did not parse wrote nothing.
C22_SilenceOnceAtEnd ==
    LET silences == {k \in 1..Len(sink) : sink[k][1] = "silence"}
    IN  /\ ppc = "loop" => silences = {}
        /\ (ppc = "returned" /\ plocal # << >>) =>
              /\ silences = {Len(sink)}
              /\ sink[Len(sink)][2] = [k \in 1..512 |-> 0]
        /\ (ppc \in {"returned", "raised"} /\ plocal = << >>) => sink = << >>

\* the stream was aborted by new input after its first chunk
C22_Witness ==
    /\ ppc = "returned"
    /\ plocal # << >>
    /\ pending
    /\ plocal.remaining = 2
    /\ Len(sink) = 2
    /\ sink[1][1] = "buf"
    /\ sink[2][1] = "silence"

-----------------------------------------------------------------------------
(* midi_to_path of firmware/i2s_midi.py called once, on each note number *)

\* the note numbers of MIDI
MidiNotes == 0..127

InitPath ==
    /\ MainOff
    /\ arg = <<0, 0>>
    /\ MidiIdle(0)
    /\ WavOff /\ PlayOff /\ BusOff
    /\ fcall = "midi_to_path"
    /\ fargs \in {<<n>> : n \in MidiNotes}
    /\ fdone = FALSE
    /\ fret = << >>

CallMidiToPath ==
    /\ fcall = "midi_to_path"
    /\ ~fdone
    /\ fret' = <<midi_to_path(fargs[1])>>
    /\ fdone' = TRUE
    /\ UNCHANGED <<fcall, fargs>>
    /\ UNCHANGED <<mainVars, histVars, midiVars, wavVars, playVars, busVars>>

NextPath == CallMidiToPath

SpecPath == InitPath /\ [][NextPath]_vars

\* C24: for every note number n in 0..127, midi_to_path(n) is
\* "/sounds_source/<name><octave>.wav" where <name> is the n mod 12 th of
\* C, Cs, D, Ds, E, F, Fs, G, Gs, A, As, B and <octave> is floor(n / 12) - 1
\* in decimal; 60 gives C4, 61 gives Cs4, 69 gives A4; and no other note
\* number in 0..127 gives the same path.
C24_PathOfNote ==
    (fcall = "midi_to_path" /\ fdone) =>
       LET n == fargs[1]
           names == <<"C", "Cs", "D", "Ds", "E", "F", "Fs", "G", "Gs", "A",
                      "As", "B">>
       IN  /\ \E k \in 1..12, octave \in (0 - 1)..9 :
                 /\ n = 12 * (octave + 1) + (k - 1)
                 /\ fret = <<"/sounds_source/" \o names[k] \o ToString(octave)
                               \o ".wav">>
           /\ n = 60 => fret = <<"/sounds_source/C4.wav">>
           /\ n = 61 => fret = <<"/sounds_source/Cs4.wav">>
           /\ n = 69 => fret = <<"/sounds_source/A4.wav">>
           /\ \A other \in MidiNotes \ {n} : midi_to_path(other) # fret[1]

C24_Witness ==
    /\ fcall = "midi_to_path"
    /\ fdone
    /\ fargs = <<61>>
    /\ fret = <<"/sounds_source/Cs4.wav">>

-----------------------------------------------------------------------------
(* hsv_to_rgb of firmware/main.py called once *)

\* the arguments explored: every hue, seven saturations and seven values
HueInputs == 0..255
SatInputs == {0, 1, 2, 127, 128, 254, 255}
ValInputs == {0, 1, 2, 127, 128, 254, 255}

InitHsv ==
    /\ MainOff
    /\ arg = <<0, 0>>
    /\ MidiIdle(0)
    /\ WavOff /\ PlayOff /\ BusOff
    /\ fcall = "hsv_to_rgb"
    /\ fargs \in HueInputs \X SatInputs \X ValInputs
    /\ fdone = FALSE
    /\ fret = << >>

CallHsvToRgb ==
    /\ fcall = "hsv_to_rgb"
    /\ ~fdone
    /\ fret' = hsv_to_rgb(fargs[1], fargs[2], fargs[3])
    /\ fdone' = TRUE
    /\ UNCHANGED <<fcall, fargs>>
    /\ UNCHANGED <<mainVars, histVars, midiVars, wavVars, playVars, busVars>>

NextHsv == CallHsvToRgb

SpecHsv == InitHsv /\ [][NextHsv]_vars

\* C26: hsv_to_rgb(0, 255, 255) is (255, 0, 0); hsv_to_rgb(85, 255, 255)
\* has green 255 and red and blue at most 3; and with saturation 0 the
\* result is (v, v, v) whatever the hue.
C26_HsvExamples ==
    (fcall = "hsv_to_rgb" /\ fdone) =>
       /\ fargs = <<0, 255, 255>> => fret = <<255, 0, 0>>
       /\ fargs = <<85, 255, 255>> =>
             /\ fret[2] = 255
             /\ fret[1] \in 0..3
             /\ fret[3] \in 0..3
       /\ fargs[2] = 0 => fret = <<fargs[3], fargs[3], fargs[3]>>

C26_Witness ==
    /\ fcall = "hsv_to_rgb"
    /\ fdone
    /\ fargs = <<85, 255, 255>>
    /\ fret = <<3, 255, 0>>

-----------------------------------------------------------------------------
(* play_tone_with_rgb of firmware/main.py called once *)

\* the arguments explored: the notes C4, A4 and B4 (the last hue of the
\* table, so that the shimmer wraps), every duration up to one animation
\* step beyond the configured one
ToneNotes == {"C4", "A4", "B4"}
DurationInputs == 0..(TONE_DURATION_MS + ANIM_STEP_MS)

InitTone ==
    /\ MainOff
    /\ arg = <<0, 0>>
    /\ MidiIdle(0)
    /\ WavOff /\ PlayOff /\ BusOff
    /\ fcall = "play_tone_with_rgb"
    /\ fargs \in {<<freq(n), d, midi_note(n)>> : n \in ToneNotes, d \in DurationInputs}
    /\ fdone = FALSE
    /\ fret = << >>

CallPlayTone ==
    /\ fcall = "play_tone_with_rgb"
    /\ ~fdone
    /\ fret' = play_tone_with_rgb(fargs[1], fargs[2], fargs[3])
    /\ fdone' = TRUE
    /\ UNCHANGED <<fcall, fargs>>
    /\ UNCHANGED <<mainVars, histVars, midiVars, wavVars, playVars, busVars>>

NextTone == CallPlayTone

SpecTone == InitTone /\ [][NextTone]_vars

\* the positions in ops of the operations named op (on the pin, if any)
OpsAt(ops, op) == {k \in 1..Len(ops) : ops[k][1] = op}
PinOpsAt(ops, op, pin) == {k \in OpsAt(ops, op) : ops[k][2] = pin}
Last(S) == CHOOSE k \in S : \A j \in S : j <= k

\* the time slept while a tone output has a duty other than 0
RECURSIVE OnTime(_, _)
OnTime(ops, on) ==
    IF ops = << >> THEN 0
    ELSE LET o == Head(ops)
         IN  IF o[1] = "duty" THEN OnTime(Tail(ops), o[3] # 0)
             ELSE IF o[1] = "sleep" /\ on THEN o[2] + OnTime(Tail(ops), on)
             ELSE OnTime(Tail(ops), on)

\* C29: play_tone_with_rgb switches both tone outputs on, shows white and
\* sleeps min(20, duration_ms); when remaining = duration_ms - 20 is
\* positive it then runs max(1, remaining div ANIM_STEP_MS) steps, each
\* one colour and one sleep of ANIM_STEP_MS; with the configured duration
\* (TONE_DURATION_MS) the time the tone is on is that duration; it ends
\* with both tone outputs at duty 0 and the LED at (0, 0, 0).
C29_ToneDuration ==
    (fcall = "play_tone_with_rgb" /\ fdone) =>
       LET d      == fargs[2]
           sleeps == OpsAt(fret, "sleep")
           steps  == IF d - 20 > 0 THEN Max(1, (d - 20) \div 10) ELSE 0
       IN  /\ {fret[k] : k \in 1..4}
                 = {<<op, pin, v, 0>> : <<op, pin, v>> \in
                      {<<"freq", pin, fargs[1] \div 100>> : pin \in {18, 19}}
                        \cup {<<"duty", pin, 32768>> : pin \in {18, 19}}}
           /\ fret[5] = <<"rgb", 255, 255, 255>>
           /\ fret[6] = <<"sleep", Min(20, d), 0, 0>>
           /\ Cardinality(sleeps) = 1 + steps
           /\ \A k \in sleeps \ {6} :
                 /\ fret[k] = <<"sleep", 10, 0, 0>>
                 /\ fret[k - 1][1] = "rgb"
           /\ d = 200 => OnTime(fret, FALSE) = 200
           /\ OnTime(fret, FALSE) = Min(20, d) + steps * 10
           /\ \A pin \in {18, 19} :
                 /\ fret[Last(PinOpsAt(fret, "duty", pin))][3] = 0
                 /\ Last(PinOpsAt(fret, "duty", pin)) > Last(sleeps)
           /\ fret[Len(fret)] = <<"rgb", 0, 0, 0>>

C29_Witness ==
    /\ fcall = "play_tone_with_rgb"
    /\ fdone
    /\ fargs = <<44000, 200, 69>>
    /\ Len(fret) = 45
    /\ fret[Len(fret) - 2] = <<"duty", 18, 0, 0>>

-----------------------------------------------------------------------------
(* The idle breathing of the main loop of firmware/main.py over many cycles. *)
(* What the sensors do in a cycle is reduced to whether a hit was            *)
(* dispatched; the breathing itself is the action Breathe of the poll loop.  *)

InitBreath ==
    /\ pc = "sleep"
    /\ clock = 0
    /\ raw = << >>
    /\ state = << >>
    /\ now = 0
    /\ idx = 1
    /\ current = 0
    /\ hit_this_cycle = FALSE
    /\ breath_counter = 0
    /\ led = <<0, 0, 0>>
    /\ todo = << >>
    /\ hit_log = << >>
    /\ cycles = 0
    /\ quiets = 0
    /\ initHigh = << >>
    /\ everLow = << >>
    /\ everHit = << >>
    /\ polled = << >>
    /\ nowAt = 0
    /\ hitAt = << >>
    /\ lastEdge = << >>
    /\ pulse = << >>
    /\ lastPoll = NoPoll
    /\ arg = <<0, 0>>
    /\ MidiIdle(0)
    /\ WavOff /\ PlayOff /\ CallOff /\ BusOff

\* "hit_this_cycle = False", then the loop over SENSORS: either no hit is
\* dispatched, or handle_hit runs (its tone is logged, it leaves the LED
\* at (0, 0, 0)) and hit_this_cycle is set
CycleBody ==
    /\ pc = "sleep"
    /\ cycles < MaxBreathCycles
    /\ cycles' = cycles + 1
    /\ \E hit \in BOOLEAN :
         /\ hit_this_cycle' = hit
         /\ IF hit
              THEN /\ led' = <<0, 0, 0>>
                   /\ hit_log' = Append(hit_log,
                                   LogTone(freq(SENSORS[1][4]), TONE_DURATION_MS,
                                           tone_on_ms(TONE_DURATION_MS)))
              ELSE UNCHANGED <<led, hit_log>>
    /\ pc' = "idle"
    /\ UNCHANGED <<clock, raw, state, now, idx, current, breath_counter, todo,
                   quiets>>
    /\ UNCHANGED histVars
    /\ UNCHANGED <<midiVars, wavVars, restVars>>

NextBreath ==
    \/ CycleBody
    \/ Breathe

SpecBreath == InitBreath /\ [][NextBreath]_vars

\* the cycles so far in which no hit was dispatched
IdleCycles == cycles - Len(hit_log)

\* C30: at the end of every poll cycle the breathing counter is the number
\* of idle cycles so far modulo 200, so that it advanced by one in each idle
\* cycle and in no cycle with a hit and repeats every 200 idle cycles;
\* breath_counter div 10 is an index 0..19 of BREATH_TABLE; after an idle
\* cycle the LED is (0, 0, BREATH_TABLE[breath_counter div 10]); after a
\* cycle with a hit the LED is as handle_hit left it, (0, 0, 0), which is no
\* breathing colour.
C30_IdleBreathing ==
    pc = "sleep" =>
       /\ breath_counter = IdleCycles % 200
       /\ breath_counter \div 10 \in 0..19
       /\ (cycles > 0 /\ ~hit_this_cycle) =>
             led = <<0, 0, <<1, 2, 3, 5, 7, 9, 11, 13, 14, 15, 15, 14, 13, 11,
                            9, 7, 5, 3, 2, 1>>[(breath_counter \div 10) + 1]>>
       /\ hit_this_cycle => led = <<0, 0, 0>>

\* the counter has wrapped after 200 idle cycles and one cycle with a hit
C30_Witness ==
    /\ pc = "sleep"
    /\ cycles = 202
    /\ Len(hit_log) = 1
    /\ breath_counter = 1
    /\ ~hit_this_cycle
    /\ led = <<0, 0, 1>>

-----------------------------------------------------------------------------
(* The sensor reads of firmware/main.py on the I2C bus: read_sensor over     *)
(* TCA9548A.read_pins and TCA9548A.select of firmware/lib/tca9548a.py, with  *)
(* the sensors config.py falls back to.                                      *)

\* config.py without sensors.cfg
DEFAULT_HUB_ADDRESSES == <<112>>
DEFAULT_SENSORS ==
    << <<112, 0, 0, "C4">>, <<112, 0, 1, "E4">>,
       <<112, 1, 0, "G4">>, <<112, 1, 1, "C5">> >>

BusKeys == {Key(DEFAULT_SENSORS[i]) : i \in 1..Len(DEFAULT_SENSORS)}
Hubs == {DEFAULT_HUB_ADDRESSES[i] : i \in 1..Len(DEFAULT_HUB_ADDRESSES)}

\* 1 << channel
Shl1(ch) == 2 ^ ch

\* TCA9548A.select: "if channel < 0 or channel > 7: raise ValueError"
select_rejects(ch) == ch < 0 \/ ch > 7

\* read_sensor once read_pins has returned the levels of the channel's lines
sensor_value(sensor, levels) ==
    LET a == levels[<<sensor[1], sensor[2], 0>>]
        b == levels[<<sensor[1], sensor[2], 1>>]
        r == IF sensor[3] = 0 THEN a ELSE b
    IN  IF r = 0 THEN 1 ELSE 0

\* "hubs[addr] = TCA9548A(...)": _channel = -1
InitBus ==
    /\ MainOff
    /\ arg = <<0, 0>>
    /\ MidiIdle(0)
    /\ WavOff /\ PlayOff /\ CallOff
    /\ bpc = "loop"
    /\ bnext = 1
    /\ mux_channel = [a \in Hubs |-> None]
    /\ bus = << >>
    /\ pins \in [BusKeys -> {0, 1}]
    /\ seen = << >>

\* read_sensor(sensor) for the next sensor of "for sensor in SENSORS":
\* mux.read_pins(ch) selects the channel with one I2C write, which the hub
\* acknowledges or not (i2c.writeto raises OSError, which nothing catches),
\* then reads the two lines
BusReadSensor ==
    /\ bpc = "loop"
    /\ Len(seen) < MaxBusReads
    /\ LET sensor == DEFAULT_SENSORS[bnext]
           addr   == sensor[1]
           ch     == sensor[2]
       IN  IF select_rejects(ch)
           THEN /\ bpc' = "crashed"
                /\ UNCHANGED <<bnext, mux_channel, bus, seen>>
           ELSE \E ack \in BOOLEAN :
                  /\ bus' = Append(bus, <<addr, Shl1(ch), ack>>)
                  /\ IF ack
                       THEN /\ mux_channel' = [mux_channel EXCEPT ![addr] = ch]
                            /\ seen' = Append(seen, sensor_value(sensor, pins))
                            /\ bnext' = (bnext % Len(DEFAULT_SENSORS)) + 1
                            /\ UNCHANGED bpc
                       ELSE /\ bpc' = "crashed"
                            /\ UNCHANGED <<bnext, mux_channel, seen>>
    /\ UNCHANGED pins
    /\ UNCHANGED <<mainVars, histVars, midiVars, wavVars, playVars, callVars>>

\* a sensor's D0 line changes level
BusEnv ==
    /\ bpc = "loop"
    /\ \E k \in BusKeys : pins' = [pins EXCEPT ![k] = 1 - @]
    /\ UNCHANGED <<bpc, bnext, mux_channel, bus, seen>>
    /\ UNCHANGED <<mainVars, histVars, midiVars, wavVars, playVars, callVars>>

NextBus ==
    \/ BusReadSensor
    \/ BusEnv

SpecBus == InitBus /\ [][NextBus]_vars

\* C25 as stated: a select write that the hub did not acknowledge makes
\* the read of that sensor return 0 (no hit) and leaves the loop running.
C25_BusFailureIsNoHit ==
    \A i \in 1..Len(bus) :
       ~bus[i][3] => /\ bpc = "loop"
                     /\ Len(seen) >= i
                     /\ seen[i] = 0

\* C28 as stated: a select write is issued only when the channel differs
\* from the one last selected on that hub, so no two successive writes to
\* a hub select the same channel.
C28_SelectCached ==
    \A i \in 2..Len(bus) :
       (bus[i - 1][3] /\ bus[i - 1][1] = bus[i][1]) => bus[i][2] # bus[i - 1][2]

-----------------------------------------------------------------------------
(* _parse_config of firmware/config.py called once on a file.  A file is the *)
(* sequence of its lines, a line the sequence of its characters, newline     *)
(* included, as "for line in f" yields them.                                 *)

\* a well-formed line
LineC4 ==
    <<"7", "0", " ", "0", " ", "A", " ", "C", "4", "\n">>
\* indented, lower-case pin letter, trailing blank
LineKick ==
    <<" ", "7", "1", " ", "1", " ", "b", " ", "k", "i", "c", "k", " ", "\n">>
\* a hub address with the 0x prefix, and a fifth field
LinePrefixed ==
    <<"0", "x", "7", "0", " ", "2", " ", "B", " ", "E", "4", " ", "x", "\n">>
\* a blank line
LineBlank ==
    <<"\n">>
\* a line of blanks
LineSpaces ==
    <<" ", " ", "\n">>
\* a comment
LineComment ==
    <<"#", " ", "7", "0", " ", "0", " ", "A", " ", "C", "4", "\n">>
\* three fields
LineShort ==
    <<"7", "0", " ", "0", " ", "A", "\n">>
\* an unknown pin letter
LineBadPin ==
    <<"7", "0", " ", "0", " ", "X", " ", "C", "4", "\n">>
\* a hub address that is not hexadecimal
LineBadHub ==
    <<"z", "z", " ", "0", " ", "A", " ", "C", "4", "\n">>
\* a channel that is not an integer
LineBadChannel ==
    <<"7", "0", " ", "x", " ", "A", " ", "C", "4", "\n">>

GoodLines == {LineC4, LineKick, LinePrefixed}
SkippedLines == {LineBlank, LineSpaces, LineComment, LineShort, LineBadPin}
BadNumberLines == {LineBadHub, LineBadChannel}
ConfigLines == GoodLines \cup SkippedLines \cup BadNumberLines

\* the files explored: up to MaxLines lines
ConfigFiles == UNION {[1..n -> ConfigLines] : n \in 0..MaxLines}

\* str.strip() and str.split() without argument: runs of whitespace
IsSpace(c) == c \in {" ", "\t", "\n", "\r"}

RECURSIVE lstrip(_)
lstrip(s) == IF s # << >> /\ IsSpace(Head(s)) THEN lstrip(Tail(s)) ELSE s

RECURSIVE rstrip(_)
rstrip(s) ==
    IF s # << >> /\ IsSpace(s[Len(s)]) THEN rstrip(SubSeq(s, 1, Len(s) - 1)) ELSE s

strip(s) == rstrip(lstrip(s))

\* split(s, word, parts): s is what is left to read, word the field being
\* read, parts the fields read
RECURSIVE split_from(_, _, _)
split_from(s, word, parts) ==
    LET closed == IF word = << >> THEN parts ELSE Append(parts, word)
    IN  IF s = << >> THEN closed
        ELSE IF IsSpace(Head(s)) THEN split_from(Tail(s), << >>, closed)
        ELSE split_from(Tail(s), Append(word, Head(s)), parts)

split(s) == split_from(s, << >>, << >>)

\* int(s, base): an optional sign, for base 16 an optional 0x, then at
\* least one digit of the base; <<"int", value>> or <<"ValueError", 0>>
Digits == <<"0", "1", "2", "3", "4", "5", "6", "7", "8", "9",
            "a", "b", "c", "d", "e", "f">>
UpperDigits == <<"0", "1", "2", "3", "4", "5", "6", "7", "8", "9",
                 "A", "B", "C", "D", "E", "F">>

IsDigit(c, b) == \E i \in 1..b : Digits[i] = c \/ UpperDigits[i] = c
DigitValue(c) == (CHOOSE i \in 1..16 : Digits[i] = c \/ UpperDigits[i] = c) - 1

RECURSIVE digits_value(_, _, _)
digits_value(s, b, acc) ==
    IF s = << >> THEN acc
    ELSE digits_value(Tail(s), b, acc * b + DigitValue(Head(s)))

int(s, b) ==
    LET signed   == s # << >> /\ Head(s) \in {"+", "-"}
        unsigned == IF signed THEN Tail(s) ELSE s
        prefixed == b = 16 /\ Len(unsigned) >= 2 /\ unsigned[1] = "0"
                      /\ unsigned[2] \in {"x", "X"}
        ds       == IF prefixed THEN SubSeq(unsigned, 3, Len(unsigned))
                    ELSE unsigned
    IN  IF ds = << >> \/ \E i \in 1..Len(ds) : ~IsDigit(ds[i], b)
        THEN <<"ValueError", 0>>
        ELSE <<"int", IF signed /\ Head(s) = "-"
                       THEN 0 - digits_value(ds, b, 0)
                       ELSE digits_value(ds, b, 0)>>

\* pin_map.get(letter): None for a letter that is no key
pin_map(letter) ==
    IF letter \in {<<"A">>, <<"a">>} THEN 0
    ELSE IF letter \in {<<"B">>, <<"b">>} THEN 1
    ELSE None

\* sorted(hubs)
RECURSIVE sorted(_)
sorted(S) ==
    IF S = {} THEN << >>
    ELSE LET least == CHOOSE x \in S : \A y \in S : x <= y
         IN  <<least>> \o sorted(S \ {least})

\* the loop "for line in f" from line k on, with hubs and sensors so far;
\* <<"ok", sorted(hubs), sensors>>, or <<"ValueError", k>> when int raises
\* on line k
RECURSIVE parse_lines(_, _, _, _)
parse_lines(f, k, hubs, sensors) ==
    IF k > Len(f) THEN <<"ok", sorted(hubs), sensors>>
    ELSE LET line  == strip(f[k])
             parts == split(line)
         IN  IF line = << >> \/ Head(line) = "#"
               THEN parse_lines(f, k + 1, hubs, sensors)
             ELSE IF Len(parts) < 4
               THEN parse_lines(f, k + 1, hubs, sensors)
             ELSE LET hub_addr == int(parts[1], 16)
                      chan     == int(parts[2], 10)
                      pin_idx  == pin_map(parts[3])
                      sound    == parts[4]
                  IN  IF hub_addr[1] = "ValueError" \/ chan[1] = "ValueError"
                        THEN <<"ValueError", k>>
                      ELSE IF pin_idx = None
                        THEN parse_lines(f, k + 1, hubs, sensors)
                      ELSE parse_lines(f, k + 1, hubs \cup {hub_addr[2]},
                               Append(sensors,
                                   <<hub_addr[2], chan[2], pin_idx, sound>>))

parse_config(f) == parse_lines(f, 1, {}, << >>)

InitConfig ==
    /\ MainOff
    /\ arg = <<0, 0>>
    /\ MidiIdle(0)
    /\ WavOff /\ PlayOff /\ BusOff
    /\ fcall = "_parse_config"
    /\ fargs \in {<<f>> : f \in ConfigFiles}
    /\ fdone = FALSE
    /\ fret = << >>

CallParseConfig ==
    /\ fcall = "_parse_config"
    /\ ~fdone
    /\ fret' = parse_config(fargs[1])
    /\ fdone' = TRUE
    /\ UNCHANGED <<fcall, fargs>>
    /\ UNCHANGED <<mainVars, histVars, midiVars, wavVars, playVars, busVars>>

NextConfig == CallParseConfig

SpecConfig == InitConfig /\ [][NextConfig]_vars

\* the descriptor each well-formed line explored stands for
DescriptorOf(line) ==
    IF line = LineC4 THEN <<112, 0, 0, <<"C", "4">>>>
    ELSE IF line = LineKick THEN <<113, 1, 1, <<"k", "i", "c", "k">>>>
    ELSE <<112, 2, 1, <<"E", "4">>>>

RECURSIVE Descriptors(_)
Descriptors(f) ==
    IF f = << >> THEN << >>
    ELSE (IF Head(f) \in GoodLines THEN <<DescriptorOf(Head(f))>> ELSE << >>)
           \o Descriptors(Tail(f))

\* C27 as stated: whatever lines the file has, blank, comment, short, with
\* an unknown pin letter or with a number that does not parse, the parse
\* returns, and its sensors are the descriptors of the well-formed lines
\* in file order.
C27_MalformedLinesSkipped ==
    (fcall = "_parse_config" /\ fdone) =>
       /\ fret[1] = "ok"
       /\ fret[3] = Descriptors(fargs[1])

-----------------------------------------------------------------------------
(* Further properties of play_tone_with_rgb (specification SpecTone) *)

\* C36: for every duration_ms >= 0 the time play_tone_with_rgb keeps the
\* tone on, min(20, duration_ms) plus the steps of ANIM_STEP_MS, differs
\* from duration_ms by less than ANIM_STEP_MS = 10 ms.
C36_OnTimeWithinOneStep ==
    (fcall = "play_tone_with_rgb" /\ fdone) =>
       LET d  == fargs[2]
           on == OnTime(fret, FALSE)
       IN  /\ d >= 0
           /\ on - d < 10
           /\ d - on < 10

\* 29 ms asked for, 30 ms played: the flash and the one step that max(1, .)
\* grants
C36_Witness ==
    /\ fcall = "play_tone_with_rgb"
    /\ fdone
    /\ fargs[2] = 29
    /\ OnTime(fret, FALSE) = 30

-----------------------------------------------------------------------------
(* The colours of firmware/main.py: hsv_to_rgb called once on its own, or *)
(* play_tone_with_rgb called once.                                        *)

InitColor == InitHsv \/ InitTone

NextColor ==
    \/ CallHsvToRgb
    \/ CallPlayTone

SpecColor == InitColor /\ [][NextColor]_vars

\* the colours play_tone_with_rgb wrote during the animation, in order:
\* those after the white flash and before the final (0, 0, 0)
AnimColors(ops) ==
    LET at == {k \in OpsAt(ops, "rgb") : k > 5 /\ k < Len(ops)}
    IN  [j \in 1..Cardinality(at) |->
           LET k == CHOOSE x \in at : Cardinality({y \in at : y < x}) = j - 1
           IN  <<ops[k][2], ops[k][3], ops[k][4]>>]

Brightest(c) == Max(c[1], Max(c[2], c[3]))

\* C35: every component hsv_to_rgb(h, s, v) returns is in 0..v and one of
\* them is v; every colour written during the tone animation has its
\* components in 0..255, and its brightness (the largest component, the
\* saturation being 255) starts at 255, never rises from one step to the
\* next and never falls below 55.
C35_ColorsInRange ==
    /\ (fcall = "hsv_to_rgb" /\ fdone) =>
          /\ Len(fret) = 3
          /\ \A i \in 1..3 : fret[i] \in 0..fargs[3]
          /\ \E i \in 1..3 : fret[i] = fargs[3]
    /\ (fcall = "play_tone_with_rgb" /\ fdone) =>
          LET cs == AnimColors(fret)
          IN  /\ Len(cs) = (Len(fret) - 9) \div 2
              /\ \A j \in 1..Len(cs) :
                    /\ \A i \in 1..3 : cs[j][i] \in 0..255
                    /\ Brightest(cs[j]) \in 55..255
                    /\ j = 1 => Brightest(cs[j]) = 255
                    /\ j > 1 => Brightest(cs[j]) <= Brightest(cs[j - 1])

\* the last step of the 200 ms tone of B4, whose hue has wrapped past 255
C35_Witness ==
    /\ fcall = "play_tone_with_rgb"
    /\ fdone
    /\ fargs = <<49388, 200, 71>>
    /\ Len(AnimColors(fret)) = 18
    /\ Brightest(AnimColors(fret)[18]) = 67
    /\ AnimColors(fret)[18][1] = 67

-----------------------------------------------------------------------------
(* The note names of lib/notes.py against midi_to_path (specification *)
(* SpecPath)                                                          *)

\* C37: for every note name of NOTES whose MIDI number is the note given
\* to midi_to_path, the path returned is "/sounds_source/<that name>.wav".
C37_NoteTablesAgree ==
    (fcall = "midi_to_path" /\ fdone) =>
       \A name \in DOMAIN NOTES :
          NOTES[name][2] = fargs[1] =>
             fret = <<"/sounds_source/" \o name \o ".wav">>

C37_Witness ==
    /\ fcall = "midi_to_path"
    /\ fdone
    /\ fargs = <<midi_note("Ds6")>>
    /\ fret = <<"/sounds_source/Ds6.wav">>

-----------------------------------------------------------------------------
(* A further property of the MIDI-driven mode (specification SpecMidi) *)

\* C34 as stated: a stream of a sample with a non-empty data chunk that
\* has ended has had audio written to the sink before its silence, also
\* when further bytes were in the UART when Player.play started.
C34_FirstChunkWritten ==
    \A i \in 1..Len(streams) :
       (streams[i].closed /\ streams[i].size > 0) => streams[i].sent > 0

-----------------------------------------------------------------------------
(* Termination of the streaming loop of Player.play (specification *)
(* SpecPlayFair)                                                   *)

\* C33: in the loop every read has asked for min(CHUNK, remaining) bytes,
\* at most 1024; the audio bytes read never exceed the declared length of
\* the data chunk and remaining, the declared length less the bytes read,
\* is never negative; every turn of the loop that writes a chunk lowers
\* remaining; and play comes to its end.
C33_StreamingTerminates ==
    /\ [](plocal # << >> =>
             /\ plocal.asked \in 0..1024
             /\ plocal.remaining >= 0
             /\ plocal.pos - HeaderLen <= plocal.data_size
             /\ plocal.remaining = plocal.data_size - (plocal.pos - HeaderLen)
             /\ \A k \in 1..Len(sink) :
                   sink[k][1] = "buf" => Len(sink[k][2]) <= 1024)
    /\ [][(ppc = "loop" /\ ppc' = "loop" /\ sink' # sink) =>
             /\ plocal'.asked = Min(1024, plocal.remaining)
             /\ plocal'.remaining < plocal.remaining]_vars
    /\ <>(ppc \in {"returned", "raised"})

\* a file with a chunk after its three bytes of audio has been played: the
\* read asked for three bytes and stopped there
C33_Witness ==
    /\ ppc = "returned"
    /\ plocal # << >>
    /\ Len(pfile[2]) = HeaderLen + 3 + 16
    /\ plocal.asked = 3
    /\ plocal.remaining = 0
    /\ Len(sink) = 2

-----------------------------------------------------------------------------
(* Further properties of the poll loop (specification Spec) *)

\* C31 as stated: the first rising edge polled on a sensor since startup
\* fires a hit, whatever the tick counter reads.
C31_FirstEdgeFires ==
    (PolledEdge /\ lastPoll.edgeAt = None) => lastPoll.fired

-----------------------------------------------------------------------------
(* The MIDI output of the main loop of firmware/main.py over many hits.     *)
(* Whether a sensor's poll dispatches a hit, and the sound the sensor is    *)
(* configured with, are left open: any sensor may fire in any cycle, with   *)
(* any sound.  handle_hit and the rest of the loop are the actions of the   *)
(* poll loop.                                                               *)

\* the sounds a sensor may be configured with: notes of lib/notes.py, and a
\* name that is none
HitSounds == {"C4", "A4", "E6", "kick"}

\* the body of "for sensor in SENSORS": handle_hit(sensor) is called, or
\* the loop moves on
PollAny ==
    /\ pc = "poll"
    /\ \/ \E sound \in HitSounds :
            /\ current' = 1
            /\ todo' = handle_hit(<<SENSORS[idx][1], SENSORS[idx][2],
                                     SENSORS[idx][3], sound>>)
            /\ hit_log' = << >>
            /\ pc' = "hit"
            /\ UNCHANGED idx
       \/ /\ NextSensor
          /\ UNCHANGED <<current, todo, hit_log>>
    /\ UNCHANGED <<clock, raw, state, now, hit_this_cycle, breath_counter, led,
                   cycles, quiets>>
    /\ UNCHANGED histVars
    /\ UNCHANGED <<midiVars, wavVars, restVars>>

NextHits ==
    \/ InitSensors
    \/ LoopTop
    \/ PollAny
    \/ HitNoteOn
    \/ HitTone
    \/ HitNoteOff
    \/ HitReturn
    \/ Breathe
    \/ Sleep

SpecHits == Init /\ [][NextHits]_vars

\* the MIDI messages written since the latest handle_hit was entered
UartLog == SelectSeq(hit_log, LAMBDA e : e.op = "uart")

\* C32: the messages handle_hit has written alternate note-on, note-off,
\* beginning with a note-on, each note-off with the note number of the
\* note-on before it; and outside handle_hit every note-on has had its
\* note-off, so that the next hit, in the same cycle or a later one, begins
\* with no note on.
C32_MonophonicMidiOut ==
    /\ \A i \in 1..Len(UartLog) :
          /\ Len(UartLog[i].data) = 3
          /\ i % 2 = 1 => UartLog[i].data[1] \div 16 = 9
          /\ i % 2 = 0 =>
                /\ UartLog[i].data[1] \div 16 = 8
                /\ UartLog[i].data[2] = UartLog[i - 1].data[2]
    /\ pc # "hit" => Len(UartLog) % 2 = 0
    /\ Len(UartLog) <= 2

\* the second sensor of a cycle has sent its note-on after the first
\* sensor's hit returned in the same cycle
C32_Witness ==
    /\ pc = "hit"
    /\ idx = 2
    /\ hit_this_cycle
    /\ state[Key(SENSORS[1])] = <<1, now>>
    /\ Len(UartLog) = 1
    /\ UartLog[1].data = <<144, 88, 127>>

====
